---- MODULE Spec2Model ----
(***************************************************************************)
(* Resource-management layer of scripts/mcp/project-memory-server.py:      *)
(* the purge-token guard, the sliding-window RateLimiter and the           *)
(* ConnectionPool.  Each component has its own specification (SpecToken,   *)
(* SpecLimiter, Spec), as have the bounded tables of ProjectMemoryDB       *)
(* (SpecStoreSeq, SpecStore) and the call_tool dispatcher (SpecTool); the  *)
(* variables of the other components stay at their initial values.         *)
(* SpecLive is the pool's callers under fairness, SpecScenario the pool's  *)
(* exhaustion scenario.                                                    *)
(***************************************************************************)
EXTENDS Integers, Sequences, FiniteSets

VARIABLES
    clock,                   \* time.time(), in seconds
    \* ---- purge token guard (module globals) ----
    _pending_purge_token,    \* Optional[str]
    _purge_token_expires,    \* float
    tk_issues,               \* history: the set_purge_token calls, <<[token, at]>>
    tk_last,                 \* history: the last validate_and_clear_purge_token call
    tk_accepts,              \* history: for each accepted call, the issue it consumed
    tk_nvalidate,            \* history: number of validate calls so far
    \* ---- RateLimiter ----
    max_ops,                 \* self.max_ops
    window_seconds,          \* self.window_seconds
    _operations,             \* self._operations (deque of timestamps)
    limiter_lock,            \* self._lock: 0 = free, else the caller holding it
    rl_pc,                   \* per caller: position inside a limiter method
    rl_now,                  \* per caller: local `now`
    rl_cutoff,               \* per caller: local `cutoff`
    rl_cfg,                  \* per caller: inside configure() (get_config nested)
    rl_hist,                 \* history: check() decisions since the last reset()
    rl_track,                \* whether rl_hist is recorded in this specification
    \* ---- ConnectionPool ----
    ncallers,                \* number of threads that call get_connection()
    pool_size,               \* self.pool_size
    _pool,                   \* self._pool: Queue(maxsize=pool_size) of connections
    _initialized,            \* self._initialized
    pool_lock,               \* self._lock: 0 = free, else the thread holding it
    _active_temp_connections,\* self._active_temp_connections
    _waiting_count,          \* self._waiting_count
    open_conns,              \* the connections created and not yet closed
    pc,                      \* per caller: position inside get_connection()
    conn,                    \* per caller: local `conn` (0 = None)
    is_temp_connection,      \* per caller: local `is_temp_connection`
    in_wait,                 \* per caller: inside the wait-queue try block
    remaining_timeout,       \* per caller: local `remaining_timeout`
    init_i,                  \* per caller: connections put so far by initialize()
    err,                     \* per caller: the exception propagating out, if any
    close_pc,                \* position of the thread running close_all()
    ever_closed,             \* history: close_all() has been called
    \* ---- ProjectMemoryDB (the three bounded tables) ----
    decisions,               \* table decisions: the row ids, oldest timestamp first
    next_id,                 \* AUTOINCREMENT: the next row id of decisions
    patterns,                \* table patterns: rows, least recently written first
    context,                 \* table context: rows, least recently written first
    st_pc,                   \* per writer: position inside add_decision etc.
    st_op,                   \* per writer: the call in progress, [coll, key]
    \* ---- call_tool ----
    known,                   \* per client: the token strings it has read in responses
    issued_to,               \* per client: the tokens its own issue responses gave it
    tool_last,               \* history: the last call_tool call and its response
    tool_n,                  \* history: number of call_tool calls so far
    \* ---- PersistentRateLimiter ----
    rate_limit_ops,          \* table rate_limit_ops: the timestamps, in row order
    _last_cleanup_time,      \* self._last_cleanup_time
    pl_pc,                   \* position of the server inside PersistentRateLimiter.check()
    pl_now,                  \* local `now` of the check() in progress
    \* ---- get_db (lazy initialization of the database) ----
    db,                      \* global `db`: None, or the ProjectMemoryDB instance
    _db_init_failed,         \* global `_db_init_failed`
    _db_init_error,          \* global `_db_init_error`
    _db_lock,                \* owner of `_db_lock` (0 = free)
    gd_pc,                   \* per caller: position inside get_db()
    gd_res,                  \* per caller: outcome of its last get_db() call, [kind, error]
    gd_attempts,             \* history: ProjectMemoryDB(...) attempts since the last reset
    gd_must_fail             \* history, per caller: a failure was stored when its call began

token_vars == <<_pending_purge_token, _purge_token_expires, tk_issues, tk_last,
                tk_accepts, tk_nvalidate>>
limiter_vars == <<max_ops, window_seconds, _operations, limiter_lock, rl_pc, rl_now,
                  rl_cutoff, rl_cfg, rl_hist, rl_track>>
pool_vars == <<ncallers, pool_size, _pool, _initialized, pool_lock, _active_temp_connections,
               _waiting_count, open_conns, pc, conn, is_temp_connection, in_wait,
               remaining_timeout, init_i, err, close_pc, ever_closed>>
store_vars == <<decisions, next_id, patterns, context, st_pc, st_op>>
tool_vars == <<known, issued_to, tool_last, tool_n>>
durable_vars == <<rate_limit_ops, _last_cleanup_time, pl_pc, pl_now>>
lazy_vars == <<db, _db_init_failed, _db_init_error, _db_lock, gd_pc, gd_res, gd_attempts,
               gd_must_fail>>
ext_vars == <<store_vars, tool_vars, durable_vars, lazy_vars>>
vars == <<clock, token_vars, limiter_vars, pool_vars, ext_vars>>

\* Python's None
None == "None"

(***************************************************************************)
(* Bounds of the model                                                     *)
(***************************************************************************)
TickSeconds == 30          \* the clock advances in steps of this many seconds
MaxTime == 90              \* the clock stops here
MaxIssues == 3             \* set_purge_token calls explored
MaxValidates == 3          \* validate_and_clear_purge_token calls explored
NumLimiterCallers == 2     \* concurrent callers of the rate limiter
MaxOpsInit == 2            \* the limiter is constructed with max_ops in 1..MaxOpsInit
MaxChecks == 4             \* check() calls explored between two reset() calls
NumCallers == 3            \* concurrent callers of get_connection()
MaxPoolSize == 2           \* the pool is constructed with pool_size in 1..MaxPoolSize
MAX_TEMP_CONNECTIONS == 1  \* ConnectionPool.MAX_TEMP_CONNECTIONS, scaled down
MAX_WAIT_QUEUE_SIZE == 1   \* ConnectionPool.MAX_WAIT_QUEUE_SIZE, scaled down
WAIT_QUEUE_TIMEOUT == 2    \* ConnectionPool.WAIT_QUEUE_TIMEOUT (seconds), scaled down
NumWriters == 2            \* concurrent callers of the ProjectMemoryDB write methods
MAX_DECISIONS == 20        \* PROJECT_MEMORY_MAX_DECISIONS, scaled down
MAX_PATTERNS == 3          \* PROJECT_MEMORY_MAX_PATTERNS, scaled down
MAX_CONTEXT_KEYS == 1      \* PROJECT_MEMORY_MAX_CONTEXT_KEYS, scaled down
MaxDecisionId == 23        \* add_decision calls explored (row ids handed out)
MaxToolCalls == 3          \* call_tool calls explored
DurableMaxOps == 3         \* RATE_LIMIT of the persistent limiter, scaled down
CleanupInterval == 60      \* PROJECT_MEMORY_RATE_LIMIT_CLEANUP_INTERVAL, scaled down
NumDbCallers == 3          \* concurrent callers of get_db()

(***************************************************************************)
(* Time                                                                    *)
(***************************************************************************)
Tick ==
    /\ clock + TickSeconds <= MaxTime
    /\ clock' = clock + TickSeconds
    /\ UNCHANGED <<token_vars, limiter_vars, pool_vars, ext_vars>>

(***************************************************************************)
(* Purge confirmation token                                                *)
(***************************************************************************)
PURGE_TOKEN_TTL == 60

\* tokens generate_purge_token() can return, and the strings a caller can
\* pass as `confirm` (one of them never issued)
Tokens == {"PURGE-A", "PURGE-B"}
ProvidedTokens == Tokens \cup {"PURGE-X"}

\* truth value of an Optional[str]
Truthy(tok) == tok # None /\ tok # ""

\* set_purge_token with the pending token kept while it is still valid
SetPurgeTokenKeepPending(token, now) ==
    IF Truthy(_pending_purge_token) /\ now < _purge_token_expires
    THEN [token |-> _pending_purge_token, expires |-> _purge_token_expires]
    ELSE [token |-> token, expires |-> now + PURGE_TOKEN_TTL]

\* set_purge_token(token): the new values of the two globals
SetPurgeToken(token, now) ==
    [token |-> token, expires |-> now + PURGE_TOKEN_TTL]

\* get_pending_purge_token(): (token, remaining) or None
GetPendingPurgeToken(now) ==
    IF Truthy(_pending_purge_token) /\ now < _purge_token_expires
    THEN <<_pending_purge_token, _purge_token_expires - now>>
    ELSE None

\* validate_and_clear_purge_token that leaves the token pending on success
ValidateNoClear(provided, now) ==
    IF Truthy(_pending_purge_token) /\ now < _purge_token_expires
    THEN IF provided = _pending_purge_token
         THEN [success |-> TRUE, expected |-> None, remaining |-> 0,
               token |-> _pending_purge_token, expires |-> _purge_token_expires]
         ELSE [success |-> FALSE, expected |-> _pending_purge_token,
               remaining |-> _purge_token_expires - now,
               token |-> _pending_purge_token, expires |-> _purge_token_expires]
    ELSE [success |-> FALSE, expected |-> None, remaining |-> 0,
          token |-> _pending_purge_token, expires |-> _purge_token_expires]

\* validate_and_clear_purge_token that still accepts at the expiry instant
ValidateExpiryInclusive(provided, now) ==
    IF Truthy(_pending_purge_token) /\ now <= _purge_token_expires
    THEN IF provided = _pending_purge_token
         THEN [success |-> TRUE, expected |-> None, remaining |-> 0,
               token |-> None, expires |-> 0]
         ELSE [success |-> FALSE, expected |-> _pending_purge_token,
               remaining |-> _purge_token_expires - now,
               token |-> _pending_purge_token, expires |-> _purge_token_expires]
    ELSE [success |-> FALSE, expected |-> None, remaining |-> 0,
          token |-> _pending_purge_token, expires |-> _purge_token_expires]

\* validate_and_clear_purge_token(provided): the returned triple and the
\* new values of the two globals (token, expires)
ValidateAndClearPurgeToken(provided, now) ==
    IF Truthy(_pending_purge_token) /\ now < _purge_token_expires
    THEN IF provided = _pending_purge_token
         THEN [success |-> TRUE, expected |-> None, remaining |-> 0,
               token |-> None, expires |-> 0]
         ELSE [success |-> FALSE, expected |-> _pending_purge_token,
               remaining |-> _purge_token_expires - now,
               token |-> _pending_purge_token, expires |-> _purge_token_expires]
    ELSE [success |-> FALSE, expected |-> None, remaining |-> 0,
          token |-> _pending_purge_token, expires |-> _purge_token_expires]

NoValidate == [provided |-> None, success |-> FALSE, expected |-> None,
               remaining |-> 0, at |-> 0, issue |-> 0]

InitToken ==
    /\ _pending_purge_token = None
    /\ _purge_token_expires = 0
    /\ tk_issues = <<>>
    /\ tk_last = NoValidate
    /\ tk_accepts = <<>>
    /\ tk_nvalidate = 0

\* purge_memory without `confirm`: generate a token and make it the pending one
\* (the whole of set_purge_token runs under _purge_token_lock)
set_purge_token(token) ==
    /\ Len(tk_issues) < MaxIssues
    /\ LET r == SetPurgeToken(token, clock) IN
         /\ _pending_purge_token' = r.token
         /\ _purge_token_expires' = r.expires
    /\ tk_issues' = Append(tk_issues, [token |-> token, at |-> clock])
    /\ UNCHANGED <<clock, tk_last, tk_accepts, tk_nvalidate, limiter_vars, pool_vars, ext_vars>>

\* purge_memory with `confirm`: one atomic check-and-clear under _purge_token_lock
validate_and_clear_purge_token(provided) ==
    /\ tk_nvalidate < MaxValidates
    /\ LET r == ValidateAndClearPurgeToken(provided, clock) IN
         /\ _pending_purge_token' = r.token
         /\ _purge_token_expires' = r.expires
         /\ tk_last' = [provided |-> provided, success |-> r.success,
                        expected |-> r.expected, remaining |-> r.remaining,
                        at |-> clock, issue |-> Len(tk_issues)]
         /\ tk_accepts' = IF r.success THEN Append(tk_accepts, Len(tk_issues))
                          ELSE tk_accepts
    /\ tk_nvalidate' = tk_nvalidate + 1
    /\ UNCHANGED <<clock, tk_issues, limiter_vars, pool_vars, ext_vars>>

(***************************************************************************)
(* RateLimiter                                                             *)
(***************************************************************************)
LimiterCallers == 1..NumLimiterCallers

\* window of the limiter create_rate_limiter() constructs
WINDOW_SECONDS == 60

\* an integer argument left at its default None
NoArg == -1

\* values configure() is called with (NoArg = argument omitted, 0 = invalid)
ConfigMaxOps == {NoArg, 0, 1, 2}
ConfigWindow == {NoArg, 0, 30, 60}

Max(a, b) == IF a >= b THEN a ELSE b

\* the front-of-deque trim that also drops timestamps equal to the cutoff
RECURSIVE TrimExpiredInclusive(_, _)
TrimExpiredInclusive(ops, cutoff) ==
    IF ops # <<>> /\ Head(ops) <= cutoff
    THEN TrimExpiredInclusive(Tail(ops), cutoff)
    ELSE ops

\* while self._operations and self._operations[0] < cutoff: popleft()
RECURSIVE TrimExpired(_, _)
TrimExpired(ops, cutoff) ==
    IF ops # <<>> /\ Head(ops) < cutoff
    THEN TrimExpired(Tail(ops), cutoff)
    ELSE ops

\* check() that records the attempt before it looks at the limit
RateLimiterCheckRecordFirst(ops, now, cutoff, limit) ==
    LET trimmed == TrimExpired(ops, cutoff) IN
    IF Len(trimmed) >= limit
    THEN [ok |-> FALSE, ops |-> Append(trimmed, now)]
    ELSE [ok |-> TRUE, ops |-> Append(trimmed, now)]

\* check() that admits one operation too many (> in place of >=)
RateLimiterCheckOffByOne(ops, now, cutoff, limit) ==
    LET trimmed == TrimExpired(ops, cutoff) IN
    IF Len(trimmed) > limit
    THEN [ok |-> FALSE, ops |-> trimmed]
    ELSE [ok |-> TRUE, ops |-> Append(trimmed, now)]

\* the critical section of check(): the decision and the new deque
RateLimiterCheck(ops, now, cutoff, limit) ==
    LET trimmed == TrimExpired(ops, cutoff) IN
    IF Len(trimmed) >= limit
    THEN [ok |-> FALSE, ops |-> trimmed]
    ELSE [ok |-> TRUE, ops |-> Append(trimmed, now)]

\* remaining() without the trim of expired timestamps
RateLimiterRemainingNoTrim(ops, cutoff, limit) ==
    [val |-> Max(0, limit - Len(ops)), ops |-> ops]

\* the critical section of remaining(): the value returned and the new deque
RateLimiterRemaining(ops, cutoff, limit) ==
    LET trimmed == TrimExpired(ops, cutoff) IN
    [val |-> Max(0, limit - Len(trimmed)), ops |-> trimmed]

InitLimiter ==
    /\ max_ops \in 1..MaxOpsInit
    /\ window_seconds = WINDOW_SECONDS
    /\ _operations = <<>>
    /\ limiter_lock = 0
    /\ rl_pc = [t \in LimiterCallers |-> "idle"]
    /\ rl_now = [t \in LimiterCallers |-> 0]
    /\ rl_cutoff = [t \in LimiterCallers |-> 0]
    /\ rl_cfg = [t \in LimiterCallers |-> FALSE]
    /\ rl_hist = <<>>

\* leaving check() or remaining(): the locals die
RLReturn(t) ==
    /\ rl_pc' = [rl_pc EXCEPT ![t] = "idle"]
    /\ rl_now' = [rl_now EXCEPT ![t] = 0]
    /\ rl_cutoff' = [rl_cutoff EXCEPT ![t] = 0]

\* check(), first two lines: now = time.time(); cutoff = now - window_seconds
\* (outside the lock)
CheckReadClock(t) ==
    /\ rl_pc[t] = "idle"
    /\ rl_track =>
         Len(rl_hist) + Cardinality({u \in LimiterCallers : rl_pc[u] = "check_cs"})
           < MaxChecks
    /\ rl_pc' = [rl_pc EXCEPT ![t] = "check_cs"]
    /\ rl_now' = [rl_now EXCEPT ![t] = clock]
    /\ rl_cutoff' = [rl_cutoff EXCEPT ![t] = clock - window_seconds]
    /\ UNCHANGED <<clock, token_vars, pool_vars, ext_vars, max_ops, window_seconds, _operations,
                   limiter_lock, rl_cfg, rl_hist, rl_track>>

\* check(), the `with self._lock` block
CheckLocked(t) ==
    /\ rl_pc[t] = "check_cs"
    /\ limiter_lock = 0
    /\ LET r == RateLimiterCheck(_operations, rl_now[t], rl_cutoff[t], max_ops) IN
         /\ _operations' = r.ops
         /\ rl_hist' = IF rl_track
                        THEN Append(rl_hist, [ts |-> rl_now[t], at |-> clock, ok |-> r.ok])
                        ELSE rl_hist
    /\ RLReturn(t)
    /\ UNCHANGED <<clock, token_vars, pool_vars, ext_vars, max_ops, window_seconds, limiter_lock,
                   rl_cfg, rl_track>>

\* remaining(), first two lines (outside the lock); also reached from
\* get_config(), which configure() calls while it holds the lock
RemainingReadClock(t) ==
    /\ rl_pc[t] \in {"idle", "get_config"}
    /\ rl_pc' = [rl_pc EXCEPT ![t] = "remaining_cs"]
    /\ rl_now' = [rl_now EXCEPT ![t] = clock]
    /\ rl_cutoff' = [rl_cutoff EXCEPT ![t] = clock - window_seconds]
    /\ UNCHANGED <<clock, token_vars, pool_vars, ext_vars, max_ops, window_seconds, _operations,
                   limiter_lock, rl_cfg, rl_hist, rl_track>>

\* remaining(), the `with self._lock` block; threading.Lock is not
\* reentrant, so the caller waits here also when it holds the lock itself
RemainingLocked(t) ==
    /\ rl_pc[t] = "remaining_cs"
    /\ limiter_lock = 0
    /\ LET r == RateLimiterRemaining(_operations, rl_cutoff[t], max_ops) IN
         /\ _operations' = r.ops
    /\ RLReturn(t)
    /\ UNCHANGED <<clock, token_vars, pool_vars, ext_vars, max_ops, window_seconds, limiter_lock,
                   rl_cfg, rl_hist, rl_track>>

\* reset(): with self._lock: self._operations.clear()
Reset(t) ==
    /\ rl_pc[t] = "idle"
    /\ limiter_lock = 0
    /\ _operations' = <<>>
    /\ rl_hist' = <<>>
    /\ UNCHANGED <<clock, token_vars, pool_vars, ext_vars, max_ops, window_seconds, limiter_lock, rl_pc,
                   rl_now, rl_cutoff, rl_cfg, rl_track>>

\* configure(a, b): the values of (max_ops, window_seconds) the body leaves
\* and whether it raised ValueError
ConfigureBody(a, b) ==
    IF a # NoArg /\ a < 1
    THEN [max_ops |-> max_ops, window_seconds |-> window_seconds, raised |-> TRUE]
    ELSE LET m == IF a # NoArg THEN a ELSE max_ops IN
         IF b # NoArg /\ b < 1
         THEN [max_ops |-> m, window_seconds |-> window_seconds, raised |-> TRUE]
         ELSE [max_ops |-> m,
               window_seconds |-> IF b # NoArg THEN b ELSE window_seconds,
               raised |-> FALSE]

\* configure(): takes the lock, validates and assigns; on ValueError the
\* `with` block releases the lock; otherwise it goes on to
\* `return self.get_config()` with the lock still held
Configure(t, a, b) ==
    /\ rl_pc[t] = "idle"
    /\ limiter_lock = 0
    /\ LET r == ConfigureBody(a, b) IN
         /\ max_ops' = r.max_ops
         /\ window_seconds' = r.window_seconds
         /\ limiter_lock' = IF r.raised THEN 0 ELSE t
         /\ rl_pc' = [rl_pc EXCEPT ![t] = IF r.raised THEN "idle" ELSE "get_config"]
         /\ rl_cfg' = [rl_cfg EXCEPT ![t] = ~r.raised]
    /\ UNCHANGED <<clock, token_vars, pool_vars, ext_vars, _operations, rl_now, rl_cutoff, rl_hist, rl_track>>

(***************************************************************************)
(* ConnectionPool                                                          *)
(*                                                                         *)
(* The observability counters (_exhaustion_count,                          *)
(* _temp_connections_created, _last_exhaustion_warning) do not affect      *)
(* control flow and are left out.  A connection is a positive number; a    *)
(* closed connection's number may be used again.  The caller's body runs   *)
(* while pc = "hold"; leaving it normally or by an exception resumes the   *)
(* generator in the same finally blocks (Release), except for a body that  *)
(* raises queue.Empty on a pooled connection (BodyRaisesEmpty), which only *)
(* SpecBody includes: the bodies of ProjectMemoryDB do not raise it.       *)
(***************************************************************************)
Callers == 1..ncallers

\* the thread that runs close_all() (close_db at shutdown)
Closer == -1

\* a connect() that hands out a connection object already in use
NewConnShared == CHOOSE c \in 1..(Cardinality(open_conns) + 1) : TRUE

\* sqlite3.connect(): a connection not in use
NewConn == CHOOSE c \in 1..(Cardinality(open_conns) + 1) : c \notin open_conns

\* an overflow test that never grants a temporary connection
TempSlotNeverFree(active) == FALSE

\* the overflow test with <= in place of <
TempSlotFreeInclusive(active) == active <= MAX_TEMP_CONNECTIONS

\* if self._active_temp_connections < self.MAX_TEMP_CONNECTIONS
TempSlotFree(active) == active < MAX_TEMP_CONNECTIONS

\* the wait loop's re-check with the capacity test left out
WaitTempSlotFreeAlways(active) == TRUE

\* in the wait loop, after Empty:
\* if self._active_temp_connections < self.MAX_TEMP_CONNECTIONS
WaitTempSlotFree(active) == active < MAX_TEMP_CONNECTIONS

\* the queue-full test with > in place of >=
WaitQueueFullStrict(waiting) == waiting > MAX_WAIT_QUEUE_SIZE

\* the queue-full test that always rejects
WaitQueueAlwaysFull(waiting) == TRUE

\* the queue-full test that never rejects
WaitQueueNeverFull(waiting) == FALSE

\* if self._waiting_count >= self.MAX_WAIT_QUEUE_SIZE
WaitQueueFull(waiting) == waiting >= MAX_WAIT_QUEUE_SIZE

\* Queue.full() for Queue(maxsize=pool_size)
PoolFull == Len(_pool) >= pool_size

\* a pool of pool_size connections shared by n caller threads
InitPoolWith(n) ==
    /\ ncallers = n
    /\ pool_size \in 1..MaxPoolSize
    /\ _pool = <<>>
    /\ _initialized = FALSE
    /\ pool_lock = 0
    /\ _active_temp_connections = 0
    /\ _waiting_count = 0
    /\ open_conns = {}
    /\ pc = [t \in Callers |-> "idle"]
    /\ conn = [t \in Callers |-> 0]
    /\ is_temp_connection = [t \in Callers |-> FALSE]
    /\ in_wait = [t \in Callers |-> FALSE]
    /\ remaining_timeout = [t \in Callers |-> 0]
    /\ init_i = [t \in Callers |-> 0]
    /\ err = [t \in Callers |-> "none"]
    /\ close_pc = "idle"
    /\ ever_closed = FALSE

InitPool == InitPoolWith(NumCallers)

other_vars == <<clock, token_vars, limiter_vars, ext_vars>>

\* get_connection(): `if not self._initialized: self.initialize()`, the flag
\* read without the lock
GetConnection(t) ==
    /\ pc[t] = "idle"
    /\ pc' = [pc EXCEPT ![t] = IF _initialized THEN "get_nowait" ELSE "initialize"]
    /\ UNCHANGED <<other_vars, ncallers, pool_size, _pool, _initialized, pool_lock,
                   _active_temp_connections, _waiting_count, open_conns, conn,
                   is_temp_connection, in_wait, remaining_timeout, init_i, err,
                   close_pc, ever_closed>>

\* initialize(): `with self._lock: if self._initialized: return`
InitializeLock(t) ==
    /\ pc[t] = "initialize"
    /\ pool_lock = 0
    /\ IF _initialized
       THEN /\ pc' = [pc EXCEPT ![t] = "get_nowait"]
            /\ UNCHANGED <<pool_lock, init_i>>
       ELSE /\ pc' = [pc EXCEPT ![t] = "init_create"]
            /\ pool_lock' = t
            /\ init_i' = [init_i EXCEPT ![t] = 0]
    /\ UNCHANGED <<other_vars, ncallers, pool_size, _pool, _initialized,
                   _active_temp_connections, _waiting_count, open_conns, conn,
                   is_temp_connection, in_wait, remaining_timeout, err, close_pc,
                   ever_closed>>

\* initialize(): `for _ in range(self.pool_size)`, the argument of put():
\* self._create_connection() returns a connection (kept in conn[t] until
\* put() has taken it)
InitializeCreate(t) ==
    /\ pc[t] = "init_create"
    /\ init_i[t] < pool_size
    /\ conn' = [conn EXCEPT ![t] = NewConn]
    /\ open_conns' = open_conns \cup {NewConn}
    /\ pc' = [pc EXCEPT ![t] = "init_put"]
    /\ UNCHANGED <<other_vars, ncallers, pool_size, _pool, _initialized, pool_lock,
                   _active_temp_connections, _waiting_count,
                   is_temp_connection, in_wait, remaining_timeout, init_i, err,
                   close_pc, ever_closed>>

\* initialize(): self._pool.put(conn); put() has no timeout and blocks while
\* the queue is full
InitializePut(t) ==
    /\ pc[t] = "init_put"
    /\ ~PoolFull
    /\ _pool' = Append(_pool, conn[t])
    /\ conn' = [conn EXCEPT ![t] = 0]
    /\ init_i' = [init_i EXCEPT ![t] = @ + 1]
    /\ pc' = [pc EXCEPT ![t] = "init_create"]
    /\ UNCHANGED <<other_vars, ncallers, pool_size, _initialized, pool_lock,
                   _active_temp_connections, _waiting_count, open_conns,
                   is_temp_connection, in_wait, remaining_timeout, err, close_pc,
                   ever_closed>>

\* initialize(): _create_connection() raises; the exception leaves the
\* `with self._lock` block and get_connection() (before its try)
InitializeCreateFails(t) ==
    /\ pc[t] = "init_create"
    /\ init_i[t] < pool_size
    /\ pool_lock' = 0
    /\ init_i' = [init_i EXCEPT ![t] = 0]
    /\ pc' = [pc EXCEPT ![t] = "raise"]
    /\ err' = [err EXCEPT ![t] = "init_failed"]
    /\ UNCHANGED <<other_vars, ncallers, pool_size, _pool, _initialized,
                   _active_temp_connections, _waiting_count, open_conns, conn,
                   is_temp_connection, in_wait, remaining_timeout, close_pc,
                   ever_closed>>

\* initialize(): the loop is over: self._initialized = True, lock released
InitializeDone(t) ==
    /\ pc[t] = "init_create"
    /\ init_i[t] >= pool_size
    /\ _initialized' = TRUE
    /\ pool_lock' = 0
    /\ init_i' = [init_i EXCEPT ![t] = 0]
    /\ pc' = [pc EXCEPT ![t] = "get_nowait"]
    /\ UNCHANGED <<other_vars, ncallers, pool_size, _pool, _active_temp_connections,
                   _waiting_count, open_conns, conn, is_temp_connection, in_wait,
                   remaining_timeout, err, close_pc, ever_closed>>

\* conn = self._pool.get_nowait(); yield conn   /   except Empty: pass
GetNowait(t) ==
    /\ pc[t] = "get_nowait"
    /\ IF _pool # <<>>
       THEN /\ conn' = [conn EXCEPT ![t] = Head(_pool)]
            /\ _pool' = Tail(_pool)
            /\ pc' = [pc EXCEPT ![t] = "hold"]
       ELSE /\ pc' = [pc EXCEPT ![t] = "temp_check"]
            /\ UNCHANGED <<conn, _pool>>
    /\ UNCHANGED <<other_vars, ncallers, pool_size, _initialized, pool_lock,
                   _active_temp_connections, _waiting_count, open_conns,
                   is_temp_connection, in_wait, remaining_timeout, init_i, err,
                   close_pc, ever_closed>>

\* a get_connection() that goes from the empty pool straight to the wait
\* queue, without trying a temporary connection
TempCheckSkipsToQueue(t) ==
    /\ pc[t] = "temp_check"
    /\ pc' = [pc EXCEPT ![t] = "enqueue"]
    /\ UNCHANGED <<other_vars, ncallers, pool_size, _pool, _initialized, pool_lock,
                   _active_temp_connections, is_temp_connection,
                   _waiting_count, open_conns, conn, in_wait, remaining_timeout,
                   init_i, err, close_pc, ever_closed>>

\* with self._temp_conn_lock: if active < MAX: active += 1; is_temp = True
\* (direct path: otherwise go on to the wait queue)
TempCheck(t) ==
    /\ pc[t] = "temp_check"
    /\ IF TempSlotFree(_active_temp_connections)
       THEN /\ _active_temp_connections' = _active_temp_connections + 1
            /\ is_temp_connection' = [is_temp_connection EXCEPT ![t] = TRUE]
            /\ pc' = [pc EXCEPT ![t] = "temp_create"]
       ELSE /\ pc' = [pc EXCEPT ![t] = "enqueue"]
            /\ UNCHANGED <<_active_temp_connections, is_temp_connection>>
    /\ UNCHANGED <<other_vars, ncallers, pool_size, _pool, _initialized, pool_lock,
                   _waiting_count, open_conns, conn, in_wait, remaining_timeout,
                   init_i, err, close_pc, ever_closed>>

\* conn = self._create_connection(); yield conn   (either path)
TempCreate(t) ==
    /\ pc[t] = "temp_create"
    /\ conn' = [conn EXCEPT ![t] = NewConn]
    /\ open_conns' = open_conns \cup {NewConn}
    /\ pc' = [pc EXCEPT ![t] = "hold"]
    /\ UNCHANGED <<other_vars, ncallers, pool_size, _pool, _initialized, pool_lock,
                   _active_temp_connections, _waiting_count, is_temp_connection,
                   in_wait, remaining_timeout, init_i, err, close_pc, ever_closed>>

\* self._create_connection() raises (either path)
TempCreateFails(t) ==
    /\ pc[t] = "temp_create"
    /\ pc' = [pc EXCEPT ![t] = "temp_fail"]
    /\ UNCHANGED <<other_vars, ncallers, pool_size, _pool, _initialized, pool_lock,
                   _active_temp_connections, _waiting_count, open_conns, conn,
                   is_temp_connection, in_wait, remaining_timeout, init_i, err,
                   close_pc, ever_closed>>

\* the except branch without the decrement: the failure propagates with the
\* temporary slot still counted
TempCreateFailedNoDecrement(t) ==
    /\ pc[t] = "temp_fail"
    /\ err' = [err EXCEPT ![t] = "create_failed"]
    /\ pc' = [pc EXCEPT ![t] = IF in_wait[t] THEN "leave_wait" ELSE "raise"]
    /\ UNCHANGED <<other_vars, ncallers, pool_size, _pool, _initialized, pool_lock,
                   _active_temp_connections, _waiting_count, open_conns, conn,
                   is_temp_connection, in_wait, remaining_timeout, init_i, close_pc,
                   ever_closed>>

\* except Exception: with self._temp_conn_lock: active -= 1; raise RuntimeError
TempCreateFailed(t) ==
    /\ pc[t] = "temp_fail"
    /\ _active_temp_connections' = _active_temp_connections - 1
    /\ err' = [err EXCEPT ![t] = "create_failed"]
    /\ pc' = [pc EXCEPT ![t] = IF in_wait[t] THEN "leave_wait" ELSE "raise"]
    /\ UNCHANGED <<other_vars, ncallers, pool_size, _pool, _initialized, pool_lock,
                   _waiting_count, open_conns, conn, is_temp_connection, in_wait,
                   remaining_timeout, init_i, close_pc, ever_closed>>

\* the caller's with-block ends (normally or by an exception).  Temporary
\* connection: finally: conn.close(); active -= 1; conn = None.  Pooled
\* connection: on to the enclosing finally blocks.
Release(t) ==
    /\ pc[t] = "hold"
    /\ IF is_temp_connection[t]
       THEN /\ open_conns' = open_conns \ {conn[t]}
            /\ _active_temp_connections' = _active_temp_connections - 1
            /\ conn' = [conn EXCEPT ![t] = 0]
            /\ pc' = [pc EXCEPT ![t] = IF in_wait[t] THEN "leave_wait" ELSE "exit"]
       ELSE /\ pc' = [pc EXCEPT ![t] = IF in_wait[t] THEN "leave_wait"
                                       ELSE "return_conn"]
            /\ UNCHANGED <<open_conns, _active_temp_connections, conn>>
    /\ UNCHANGED <<other_vars, ncallers, pool_size, _pool, _initialized, pool_lock,
                   _waiting_count, is_temp_connection, in_wait, remaining_timeout,
                   init_i, err, close_pc, ever_closed>>

\* the caller's with-block raises queue.Empty while it uses a pooled
\* connection: the exception is thrown into the generator at `yield conn`,
\* inside the try whose `except Empty` was meant for the queue.  On the
\* direct path `except Empty: pass` goes on to the temporary-connection
\* check, on the wait path the handler of the wait loop runs; `conn` still
\* refers to the pooled connection.  A later yield is not a second body:
\* the context manager raises RuntimeError and the generator is closed
\* at that yield (Release).
BodyRaisesEmpty(t) ==
    /\ pc[t] = "hold"
    /\ ~is_temp_connection[t]
    /\ err[t] = "none"
    /\ err' = [err EXCEPT ![t] = "body_raised_empty"]
    /\ pc' = [pc EXCEPT ![t] = IF in_wait[t] THEN "wait_temp_check" ELSE "temp_check"]
    /\ UNCHANGED <<other_vars, ncallers, pool_size, _pool, _initialized, pool_lock,
                   _active_temp_connections, _waiting_count, open_conns, conn,
                   is_temp_connection, in_wait, remaining_timeout, init_i, close_pc,
                   ever_closed>>

\* with self._waiting_lock: if waiting >= MAX_WAIT_QUEUE_SIZE: raise (through
\* the outer finally, which returns a pooled connection still in `conn`);
\* else waiting += 1, and the wait loop starts with the full timeout
Enqueue(t) ==
    /\ pc[t] = "enqueue"
    /\ IF WaitQueueFull(_waiting_count)
       THEN /\ err' = [err EXCEPT ![t] = "queue_full"]
            /\ pc' = [pc EXCEPT ![t] = IF conn[t] # 0 THEN "return_conn" ELSE "raise"]
            /\ UNCHANGED <<_waiting_count, in_wait, remaining_timeout>>
       ELSE /\ _waiting_count' = _waiting_count + 1
            /\ in_wait' = [in_wait EXCEPT ![t] = TRUE]
            /\ remaining_timeout' = [remaining_timeout EXCEPT ![t] = WAIT_QUEUE_TIMEOUT]
            /\ pc' = [pc EXCEPT ![t] = "wait_get"]
            /\ UNCHANGED err
    /\ UNCHANGED <<other_vars, ncallers, pool_size, _pool, _initialized, pool_lock,
                   _active_temp_connections, open_conns, conn, is_temp_connection,
                   init_i, close_pc, ever_closed>>

\* while remaining_timeout > 0: conn = self._pool.get(timeout=min(remaining, 1.0));
\* a connection arrives within the second: yield conn
WaitGet(t) ==
    /\ pc[t] = "wait_get"
    /\ remaining_timeout[t] > 0
    /\ _pool # <<>>
    /\ conn' = [conn EXCEPT ![t] = Head(_pool)]
    /\ _pool' = Tail(_pool)
    /\ pc' = [pc EXCEPT ![t] = "hold"]
    /\ UNCHANGED <<other_vars, ncallers, pool_size, _initialized, pool_lock,
                   _active_temp_connections, _waiting_count, open_conns,
                   is_temp_connection, in_wait, remaining_timeout, init_i, err,
                   close_pc, ever_closed>>

\* the get() times out after a second with the pool still empty: except Empty
WaitGetEmpty(t) ==
    /\ pc[t] = "wait_get"
    /\ remaining_timeout[t] > 0
    /\ _pool = <<>>
    /\ pc' = [pc EXCEPT ![t] = "wait_temp_check"]
    /\ UNCHANGED <<other_vars, ncallers, pool_size, _pool, _initialized, pool_lock,
                   _active_temp_connections, _waiting_count, open_conns, conn,
                   is_temp_connection, in_wait, remaining_timeout, init_i, err,
                   close_pc, ever_closed>>

\* in the wait loop: the temp-capacity re-check; when there is still no slot,
\* remaining_timeout = WAIT_QUEUE_TIMEOUT - elapsed (a second has passed)
WaitTempCheck(t) ==
    /\ pc[t] = "wait_temp_check"
    /\ IF WaitTempSlotFree(_active_temp_connections)
       THEN /\ _active_temp_connections' = _active_temp_connections + 1
            /\ is_temp_connection' = [is_temp_connection EXCEPT ![t] = TRUE]
            /\ pc' = [pc EXCEPT ![t] = "temp_create"]
            /\ UNCHANGED remaining_timeout
       ELSE /\ remaining_timeout' = [remaining_timeout EXCEPT ![t] = @ - 1]
            /\ pc' = [pc EXCEPT ![t] = "wait_get"]
            /\ UNCHANGED <<_active_temp_connections, is_temp_connection>>
    /\ UNCHANGED <<other_vars, ncallers, pool_size, _pool, _initialized, pool_lock,
                   _waiting_count, open_conns, conn, in_wait, init_i, err, close_pc,
                   ever_closed>>

\* the while loop ends: raise RuntimeError("Timed out waiting ...")
WaitTimeout(t) ==
    /\ pc[t] = "wait_get"
    /\ remaining_timeout[t] <= 0
    /\ err' = [err EXCEPT ![t] = "timeout"]
    /\ pc' = [pc EXCEPT ![t] = "leave_wait"]
    /\ UNCHANGED <<other_vars, ncallers, pool_size, _pool, _initialized, pool_lock,
                   _active_temp_connections, _waiting_count, open_conns, conn,
                   is_temp_connection, in_wait, remaining_timeout, init_i, close_pc,
                   ever_closed>>

\* the finally of the wait-queue try: with self._waiting_lock: waiting -= 1
LeaveWait(t) ==
    /\ pc[t] = "leave_wait"
    /\ _waiting_count' = _waiting_count - 1
    /\ in_wait' = [in_wait EXCEPT ![t] = FALSE]
    /\ remaining_timeout' = [remaining_timeout EXCEPT ![t] = 0]
    /\ pc' = [pc EXCEPT ![t] = IF conn[t] # 0 /\ ~is_temp_connection[t]
                               THEN "return_conn"
                               ELSE IF err[t] # "none" THEN "raise" ELSE "exit"]
    /\ UNCHANGED <<other_vars, ncallers, pool_size, _pool, _initialized, pool_lock,
                   _active_temp_connections, open_conns, conn, is_temp_connection,
                   init_i, err, close_pc, ever_closed>>

\* the outer finally: if conn is not None and not is_temp_connection:
\* self._return_connection(conn): put_nowait, or close when the queue is full
\* (the notify that follows wakes nobody: no thread waits on _pool_available)
ReturnConnection(t) ==
    /\ pc[t] = "return_conn"
    /\ IF PoolFull
       THEN /\ open_conns' = open_conns \ {conn[t]}
            /\ UNCHANGED _pool
       ELSE /\ _pool' = Append(_pool, conn[t])
            /\ UNCHANGED open_conns
    /\ pc' = [pc EXCEPT ![t] = "exit"]
    /\ UNCHANGED <<other_vars, ncallers, pool_size, _initialized, pool_lock,
                   _active_temp_connections, _waiting_count, conn,
                   is_temp_connection, in_wait, remaining_timeout, init_i, err,
                   close_pc, ever_closed>>

\* get_connection() is left, by return or with the exception in err
Exit(t) ==
    /\ pc[t] \in {"exit", "raise"}
    /\ pc' = [pc EXCEPT ![t] = "idle"]
    /\ conn' = [conn EXCEPT ![t] = 0]
    /\ is_temp_connection' = [is_temp_connection EXCEPT ![t] = FALSE]
    /\ err' = [err EXCEPT ![t] = "none"]
    /\ UNCHANGED <<other_vars, ncallers, pool_size, _pool, _initialized, pool_lock,
                   _active_temp_connections, _waiting_count, open_conns, in_wait,
                   remaining_timeout, init_i, close_pc, ever_closed>>

\* close_all(): with self._lock
CloseAllLock ==
    /\ close_pc = "idle"
    /\ pool_lock = 0
    /\ pool_lock' = Closer
    /\ close_pc' = "drain"
    /\ ever_closed' = TRUE
    /\ UNCHANGED <<other_vars, ncallers, pool_size, _pool, _initialized,
                   _active_temp_connections, _waiting_count, open_conns, pc, conn,
                   is_temp_connection, in_wait, remaining_timeout, init_i, err>>

\* close_all(): while not self._pool.empty(): conn = get_nowait(); conn.close()
CloseAllDrain ==
    /\ close_pc = "drain"
    /\ IF _pool # <<>>
       THEN /\ _pool' = Tail(_pool)
            /\ open_conns' = open_conns \ {Head(_pool)}
            /\ UNCHANGED close_pc
       ELSE /\ close_pc' = "flag"
            /\ UNCHANGED <<_pool, open_conns>>
    /\ UNCHANGED <<other_vars, ncallers, pool_size, _initialized, pool_lock,
                   _active_temp_connections, _waiting_count, pc, conn,
                   is_temp_connection, in_wait, remaining_timeout, init_i, err,
                   ever_closed>>

\* close_all(): self._initialized = False, lock released
CloseAllDone ==
    /\ close_pc = "flag"
    /\ _initialized' = FALSE
    /\ pool_lock' = 0
    /\ close_pc' = "idle"
    /\ UNCHANGED <<other_vars, ncallers, pool_size, _pool, _active_temp_connections,
                   _waiting_count, open_conns, pc, conn, is_temp_connection,
                   in_wait, remaining_timeout, init_i, err, ever_closed>>

(***************************************************************************)
(* ProjectMemoryDB: the three bounded tables                               *)
(*                                                                         *)
(* Connections are opened with isolation_level=None (autocommit), so each  *)
(* statement is visible to every other connection as soon as it has run.   *)
(* A write method is two steps: _enforce_*_limit() on one connection, then *)
(* the INSERT on another one.  Of a decision only the row id is kept, in   *)
(* timestamp order (datetime.now(), microseconds).  A pattern or context   *)
(* row keeps its key, its updated_at (CURRENT_TIMESTAMP, whole seconds)    *)
(* and its place in the table's rowid order; the sequence itself is in the *)
(* order the rows were last written.                                       *)
(***************************************************************************)
Writers == 1..NumWriters

\* names and keys a caller can pass; the last two fail validate_key
Keys == {"a", "b", "", "bad key"}

\* pattern names the writers pass: more valid ones than MAX_PATTERNS
Names == Keys \cup {"c", "d"}

\* validate_key(key): non-empty and matching ^[\w\-\.]+$
ValidateKey(key) == key # "" /\ key # "bad key"

\* the same DELETE with ORDER BY <age> DESC: the n newest rows go
DeleteNewest(rows, n) ==
    IF n >= Len(rows) THEN <<>> ELSE SubSeq(rows, 1, Len(rows) - n)

\* DELETE ... WHERE id IN (SELECT id ... ORDER BY <age> ASC LIMIT n)
DeleteOldest(rows, n) ==
    IF n >= Len(rows) THEN <<>> ELSE SubSeq(rows, n + 1, Len(rows))

\* delete_count = max(1, MAX_DECISIONS // 10)
DecisionDeleteCount == Max(1, MAX_DECISIONS \div 10)

\* _enforce_decision_limit with `count > MAX_DECISIONS`
EnforceDecisionLimitStrict(rows) ==
    IF Len(rows) > MAX_DECISIONS THEN DeleteOldest(rows, DecisionDeleteCount) ELSE rows

\* _enforce_decision_limit(): if count >= MAX_DECISIONS: delete the oldest 10%
EnforceDecisionLimit(rows) ==
    IF Len(rows) >= MAX_DECISIONS THEN DeleteOldest(rows, DecisionDeleteCount) ELSE rows

\* the keys of a keyed table, least recently written first
RowKeys(rows) == [i \in DOMAIN rows |-> rows[i].key]

KeySet(rows) == {rows[i].key : i \in DOMAIN rows}

\* row ids as positions in rowid order: 1..Len(rows)
Renumber(rows) ==
    [i \in DOMAIN rows |->
        [rows[i] EXCEPT !.id = Cardinality({j \in DOMAIN rows : rows[j].id <= rows[i].id})]]

RemoveAt(rows, i) == SubSeq(rows, 1, i - 1) \o SubSeq(rows, i + 1, Len(rows))

\* SELECT ... ORDER BY updated_at ASC LIMIT 1: the smallest updated_at; among
\* rows written in the same second SQLite returns the first in rowid order
OldestUpdated(rows) ==
    CHOOSE i \in DOMAIN rows :
        \A j \in DOMAIN rows \ {i} :
            \/ rows[i].updated_at < rows[j].updated_at
            \/ /\ rows[i].updated_at = rows[j].updated_at
               /\ rows[i].id < rows[j].id

\* DELETE FROM ... WHERE id IN (SELECT id ... ORDER BY updated_at ASC LIMIT 1)
DeleteOldestUpdated(rows) ==
    IF rows = <<>> THEN rows ELSE Renumber(RemoveAt(rows, OldestUpdated(rows)))

\* _enforce_pattern_limit(): if count >= MAX_PATTERNS: delete the oldest one
EnforcePatternLimit(rows) ==
    IF Len(rows) >= MAX_PATTERNS THEN DeleteOldestUpdated(rows) ELSE rows

\* _enforce_context_limit(): if count >= MAX_CONTEXT_KEYS: delete the oldest one
EnforceContextLimit(rows) ==
    IF Len(rows) >= MAX_CONTEXT_KEYS THEN DeleteOldestUpdated(rows) ELSE rows

\* INSERT ... ON CONFLICT(name) DO UPDATE SET ..., updated_at = CURRENT_TIMESTAMP:
\* a new row at the end of the table, or the existing row (same rowid) with
\* its updated_at set to the current second
Upsert(rows, key, now) ==
    LET old == SelectSeq(rows, LAMBDA r : r.key = key)
        others == SelectSeq(rows, LAMBDA r : r.key # key)
        id == IF old # <<>> THEN old[1].id ELSE Len(rows) + 1
    IN Append(others, [key |-> key, updated_at |-> now, id |-> id])

\* INSERT OR REPLACE ... VALUES (..., CURRENT_TIMESTAMP): a row with the same
\* key is deleted and the new row goes to the end of the table
InsertOrReplace(rows, key, now) ==
    LET others == SelectSeq(rows, LAMBDA r : r.key # key)
    IN Renumber(Append(others, [key |-> key, updated_at |-> now, id |-> Len(rows) + 1]))

NoOp == [coll |-> "none", key |-> ""]

InitStore ==
    /\ decisions = <<>>
    /\ next_id = 1
    /\ patterns = <<>>
    /\ context = <<>>
    /\ st_pc = [w \in Writers |-> "idle"]
    /\ st_op = [w \in Writers |-> NoOp]

store_other_vars == <<clock, token_vars, limiter_vars, pool_vars, tool_vars, durable_vars,
                      lazy_vars>>

\* add_decision(): self._enforce_decision_limit()
add_decision(w) ==
    /\ st_pc[w] = "idle"
    /\ next_id <= MaxDecisionId
    /\ decisions' = EnforceDecisionLimit(decisions)
    /\ st_pc' = [st_pc EXCEPT ![w] = "insert"]
    /\ st_op' = [st_op EXCEPT ![w] = [coll |-> "decisions", key |-> ""]]
    /\ UNCHANGED <<store_other_vars, next_id, patterns, context>>

\* upsert_pattern(name): validate_key, then self._enforce_pattern_limit()
upsert_pattern(w, name) ==
    /\ st_pc[w] = "idle"
    /\ IF ValidateKey(name)
       THEN /\ patterns' = EnforcePatternLimit(patterns)
            /\ st_pc' = [st_pc EXCEPT ![w] = "insert"]
            /\ st_op' = [st_op EXCEPT ![w] = [coll |-> "patterns", key |-> name]]
       ELSE UNCHANGED <<patterns, st_pc, st_op>>
    /\ UNCHANGED <<store_other_vars, decisions, next_id, context>>

\* set_context(key): validate_key, then self._enforce_context_limit()
set_context(w, key) ==
    /\ st_pc[w] = "idle"
    /\ IF ValidateKey(key)
       THEN /\ context' = EnforceContextLimit(context)
            /\ st_pc' = [st_pc EXCEPT ![w] = "insert"]
            /\ st_op' = [st_op EXCEPT ![w] = [coll |-> "context", key |-> key]]
       ELSE UNCHANGED <<context, st_pc, st_op>>
    /\ UNCHANGED <<store_other_vars, decisions, next_id, patterns>>

\* the second `with self._get_conn() as conn:` block: INSERT and commit
StoreInsert(w) ==
    /\ st_pc[w] = "insert"
    /\ decisions' = IF st_op[w].coll = "decisions" THEN Append(decisions, next_id)
                    ELSE decisions
    /\ next_id' = IF st_op[w].coll = "decisions" THEN next_id + 1 ELSE next_id
    /\ patterns' = IF st_op[w].coll = "patterns" THEN Upsert(patterns, st_op[w].key, clock)
                   ELSE patterns
    /\ context' = IF st_op[w].coll = "context" THEN Upsert(context, st_op[w].key, clock)
                  ELSE context
    /\ st_pc' = [st_pc EXCEPT ![w] = "idle"]
    /\ st_op' = [st_op EXCEPT ![w] = NoOp]
    /\ UNCHANGED store_other_vars

\* the second `with self._get_conn()` raises (no connection to be had): the
\* call ends after the eviction, without the INSERT
StoreInsertFails(w) ==
    /\ st_pc[w] = "insert"
    /\ st_pc' = [st_pc EXCEPT ![w] = "idle"]
    /\ st_op' = [st_op EXCEPT ![w] = NoOp]
    /\ UNCHANGED <<store_other_vars, decisions, next_id, patterns, context>>

(***************************************************************************)
(* call_tool                                                               *)
(***************************************************************************)
\* MCP clients that send tool calls
Clients == {"owner", "other"}

\* the exempt set without the monitoring and export tools
ExemptBulkOnly == {"import_memory", "purge_memory"}

\* Operations exempt from rate limiting
RATE_LIMIT_EXEMPT_OPERATIONS ==
    {"import_memory", "export_memory", "health_check", "memory_stats", "purge_memory"}

\* the tools that write to the store, and two that only read
MutatingTools ==
    {"remember_decision", "store_pattern", "set_context", "import_memory", "purge_memory"}
ReadOnlyTools == {"recall_decisions", "memory_stats"}

\* the limiter has no budget left at time `now`
OverBudget(now) == Len(TrimExpired(_operations, now - window_seconds)) >= max_ops

\* `if name not in RATE_LIMIT_EXEMPT_OPERATIONS: if not limiter.check(): ...`:
\* whether the call goes on to its handler, and the deque afterwards (on a
\* rejection limiter.remaining() runs as well)
ToolLimiter(name, now) ==
    IF name \in RATE_LIMIT_EXEMPT_OPERATIONS
    THEN [pass |-> TRUE, limiter |-> "exempt", ops |-> _operations]
    ELSE LET r == RateLimiterCheck(_operations, now, now - window_seconds, max_ops) IN
         IF r.ok
         THEN [pass |-> TRUE, limiter |-> "admitted", ops |-> r.ops]
         ELSE [pass |-> FALSE, limiter |-> "rejected",
               ops |-> RateLimiterRemaining(r.ops, now - window_seconds, max_ops).ops]

NoCall == [client |-> "none", name |-> "none", kind |-> "none", limiter |-> "none",
           over |-> FALSE, mutated |-> FALSE, tokens |-> {}, at |-> 0]

\* the record of a call: who called what, the limiter's verdict, the kind of
\* response, whether the store was written, the token strings in the response
Call(c, name, kind, mutated, tokens) ==
    [client |-> c, name |-> name, kind |-> kind,
     limiter |-> ToolLimiter(name, clock).limiter, over |-> OverBudget(clock),
     mutated |-> mutated, tokens |-> tokens, at |-> clock]

InitTool ==
    /\ known = [c \in Clients |-> {}]
    /\ issued_to = [c \in Clients |-> {}]
    /\ tool_last = NoCall
    /\ tool_n = 0

\* the same for every call: the limiter runs, the call is counted, the client
\* reads the response
ToolStep(c, name, kind, mutated, tokens) ==
    /\ tool_n < MaxToolCalls
    /\ tool_n' = tool_n + 1
    /\ _operations' = ToolLimiter(name, clock).ops
    /\ tool_last' = Call(c, name, kind, mutated, tokens)
    /\ known' = [known EXCEPT ![c] = @ \cup tokens]
    /\ UNCHANGED <<clock, max_ops, window_seconds, limiter_lock, rl_pc, rl_now, rl_cutoff,
                   rl_cfg, rl_hist, rl_track, pool_vars, st_pc, st_op, durable_vars,
                   lazy_vars>>

\* call_tool: the limiter refuses a tool that is not exempt
ToolRateLimited(c, name) ==
    /\ name \in (MutatingTools \cup ReadOnlyTools)
    /\ ~ToolLimiter(name, clock).pass
    /\ ToolStep(c, name, "rate_limited", FALSE, {})
    /\ UNCHANGED <<token_vars, decisions, next_id, patterns, context, issued_to>>

\* call_tool("recall_decisions" / "memory_stats"): reads only
ToolRead(c, name) ==
    /\ name \in ReadOnlyTools
    /\ ToolLimiter(name, clock).pass
    /\ ToolStep(c, name, "ok", FALSE, {})
    /\ UNCHANGED <<token_vars, decisions, next_id, patterns, context, issued_to>>

\* the read-only and administrative tools
AdminTools == {"health_check", "memory_stats", "export_memory"}

\* call_tool("export_memory"): database.export_all(), reads only
ToolExportMemory(c) ==
    /\ ToolLimiter("export_memory", clock).pass
    /\ ToolStep(c, "export_memory", "ok", FALSE, {})
    /\ UNCHANGED <<token_vars, decisions, next_id, patterns, context, issued_to>>

\* call_tool("health_check"): database.health_check() reads the store and
\* calls limiter.get_config(), whose remaining() drops the expired timestamps
ToolHealthCheck(c) ==
    /\ ToolLimiter("health_check", clock).pass
    /\ tool_n < MaxToolCalls
    /\ tool_n' = tool_n + 1
    /\ _operations' = RateLimiterRemaining(ToolLimiter("health_check", clock).ops,
                                           clock - window_seconds, max_ops).ops
    /\ tool_last' = Call(c, "health_check", "ok", FALSE, {})
    /\ UNCHANGED <<clock, max_ops, window_seconds, limiter_lock, rl_pc, rl_now, rl_cutoff,
                   rl_cfg, rl_hist, rl_track, pool_vars, st_pc, st_op, known, durable_vars,
                   lazy_vars>>
    /\ UNCHANGED <<token_vars, decisions, next_id, patterns, context, issued_to>>

\* call_tool("remember_decision"): empty decision or rationale is a
\* VALIDATION_ERROR; otherwise database.add_decision(...)
ToolRememberDecision(c, decision) ==
    /\ ToolLimiter("remember_decision", clock).pass
    /\ IF decision = ""
       THEN /\ ToolStep(c, "remember_decision", "validation_error", FALSE, {})
            /\ UNCHANGED <<decisions, next_id>>
       ELSE /\ next_id <= MaxDecisionId
            /\ decisions' = Append(EnforceDecisionLimit(decisions), next_id)
            /\ next_id' = next_id + 1
            /\ ToolStep(c, "remember_decision", "ok", TRUE, {})
    /\ UNCHANGED <<token_vars, patterns, context, issued_to>>

\* call_tool("store_pattern"): empty or invalid name is a VALIDATION_ERROR;
\* otherwise database.upsert_pattern(...)
ToolStorePattern(c, name) ==
    /\ ToolLimiter("store_pattern", clock).pass
    /\ IF ~ValidateKey(name)
       THEN /\ ToolStep(c, "store_pattern", "validation_error", FALSE, {})
            /\ UNCHANGED patterns
       ELSE /\ patterns' = Upsert(EnforcePatternLimit(patterns), name, clock)
            /\ ToolStep(c, "store_pattern", "ok", TRUE, {})
    /\ UNCHANGED <<token_vars, decisions, next_id, context, issued_to>>

\* call_tool("set_context"): empty or invalid key is a VALIDATION_ERROR;
\* otherwise database.set_context(...)
ToolSetContext(c, key) ==
    /\ ToolLimiter("set_context", clock).pass
    /\ IF ~ValidateKey(key)
       THEN /\ ToolStep(c, "set_context", "validation_error", FALSE, {})
            /\ UNCHANGED context
       ELSE /\ context' = Upsert(EnforceContextLimit(context), key, clock)
            /\ ToolStep(c, "set_context", "ok", TRUE, {})
    /\ UNCHANGED <<token_vars, decisions, next_id, patterns, issued_to>>

\* import payloads: none, text that does not parse or fails the schema, and
\* an export holding one decision, the pattern "a" and the context key "a"
ImportPayloads == {"", "invalid", "export"}

\* call_tool("import_memory"): database.import_data(data, merge): clears the
\* tables when merge is false, then inserts the rows without any limit check
ToolImportMemory(c, data, merge) ==
    /\ ToolLimiter("import_memory", clock).pass
    /\ IF data # "export"
       THEN /\ ToolStep(c, "import_memory", "validation_error", FALSE, {})
            /\ UNCHANGED <<decisions, next_id, patterns, context>>
       ELSE /\ next_id <= MaxDecisionId
            /\ decisions' = Append(IF merge THEN decisions ELSE <<>>, next_id)
            /\ next_id' = next_id + 1
            /\ patterns' = InsertOrReplace(IF merge THEN patterns ELSE <<>>, "a", clock)
            /\ context' = InsertOrReplace(IF merge THEN context ELSE <<>>, "a", clock)
            /\ ToolStep(c, "import_memory", "ok", TRUE, {})
    /\ UNCHANGED <<token_vars, issued_to>>

\* call_tool("purge_memory") without confirm: generate_purge_token(),
\* set_purge_token(token); the response shows the token
ToolPurgeRequest(c, token) ==
    /\ ToolLimiter("purge_memory", clock).pass
    /\ Len(tk_issues) < MaxIssues
    /\ LET r == SetPurgeToken(token, clock) IN
         /\ _pending_purge_token' = r.token
         /\ _purge_token_expires' = r.expires
    /\ tk_issues' = Append(tk_issues, [token |-> token, at |-> clock])
    /\ issued_to' = [issued_to EXCEPT ![c] = @ \cup {token}]
    /\ ToolStep(c, "purge_memory", "token_issued", FALSE, {token})
    /\ UNCHANGED <<tk_last, tk_accepts, tk_nvalidate, decisions, next_id, patterns, context>>

\* purge_memory that runs database.purge_all() before it looks at the token
ToolPurgeConfirmPurgeFirst(c, confirm) ==
    /\ ToolLimiter("purge_memory", clock).pass
    /\ confirm \in known[c] \cup {"PURGE-X"}
    /\ tk_nvalidate < MaxValidates
    /\ decisions' = <<>>
    /\ patterns' = <<>>
    /\ context' = <<>>
    /\ LET r == ValidateAndClearPurgeToken(confirm, clock) IN
         /\ _pending_purge_token' = r.token
         /\ _purge_token_expires' = r.expires
         /\ tk_last' = [provided |-> confirm, success |-> r.success,
                        expected |-> r.expected, remaining |-> r.remaining,
                        at |-> clock, issue |-> Len(tk_issues)]
         /\ tk_accepts' = IF r.success THEN Append(tk_accepts, Len(tk_issues))
                          ELSE tk_accepts
         /\ IF r.success
            THEN ToolStep(c, "purge_memory", "purged", TRUE, {})
            ELSE IF Truthy(r.expected)
                 THEN ToolStep(c, "purge_memory", "invalid_token", FALSE,
                               {r.expected, confirm})
                 ELSE ToolStep(c, "purge_memory", "no_pending_or_expired", FALSE, {})
    /\ tk_nvalidate' = tk_nvalidate + 1
    /\ UNCHANGED <<tk_issues, next_id, issued_to>>

\* call_tool("purge_memory", confirm): validate_and_clear_purge_token(confirm);
\* on a mismatch the response shows the expected and the received token, on
\* success database.purge_all() runs
ToolPurgeConfirm(c, confirm) ==
    /\ ToolLimiter("purge_memory", clock).pass
    /\ confirm \in known[c] \cup {"PURGE-X"}
    /\ tk_nvalidate < MaxValidates
    /\ LET r == ValidateAndClearPurgeToken(confirm, clock) IN
         /\ _pending_purge_token' = r.token
         /\ _purge_token_expires' = r.expires
         /\ tk_last' = [provided |-> confirm, success |-> r.success,
                        expected |-> r.expected, remaining |-> r.remaining,
                        at |-> clock, issue |-> Len(tk_issues)]
         /\ tk_accepts' = IF r.success THEN Append(tk_accepts, Len(tk_issues))
                          ELSE tk_accepts
         /\ IF r.success
            THEN /\ decisions' = <<>>
                 /\ patterns' = <<>>
                 /\ context' = <<>>
                 /\ ToolStep(c, "purge_memory", "purged", TRUE, {})
            ELSE /\ UNCHANGED <<decisions, patterns, context>>
                 /\ IF Truthy(r.expected)
                    THEN ToolStep(c, "purge_memory", "invalid_token", FALSE,
                                  {r.expected, confirm})
                    ELSE ToolStep(c, "purge_memory", "no_pending_or_expired", FALSE, {})
    /\ tk_nvalidate' = tk_nvalidate + 1
    /\ UNCHANGED <<tk_issues, next_id, issued_to>>

\* how far purge_all() gets before it raises: 0 = no connection, or the first
\* DELETE fails (database locked); 1, 2 = after that many DELETE statements,
\* each its own transaction in autocommit mode; 3 = in VACUUM
PurgeFailurePoints == 0..3

\* call_tool("purge_memory", confirm) with the pending token, when
\* database.purge_all() raises after `done` DELETE statements: the token has
\* been cleared, `except Exception` answers with INTERNAL_ERROR
ToolPurgeConfirmFails(c, confirm, done) ==
    /\ ToolLimiter("purge_memory", clock).pass
    /\ confirm \in known[c] \cup {"PURGE-X"}
    /\ tk_nvalidate < MaxValidates
    /\ LET r == ValidateAndClearPurgeToken(confirm, clock) IN
         /\ r.success
         /\ _pending_purge_token' = r.token
         /\ _purge_token_expires' = r.expires
         /\ tk_last' = [provided |-> confirm, success |-> r.success,
                        expected |-> r.expected, remaining |-> r.remaining,
                        at |-> clock, issue |-> Len(tk_issues)]
         /\ tk_accepts' = Append(tk_accepts, Len(tk_issues))
    /\ decisions' = IF done >= 1 THEN <<>> ELSE decisions
    /\ patterns' = IF done >= 2 THEN <<>> ELSE patterns
    /\ context' = IF done >= 3 THEN <<>> ELSE context
    /\ ToolStep(c, "purge_memory", "internal_error", done >= 1, {})
    /\ tk_nvalidate' = tk_nvalidate + 1
    /\ UNCHANGED <<tk_issues, next_id, issued_to>>

(***************************************************************************)
(* PersistentRateLimiter                                                   *)
(*                                                                         *)
(* The limiter of a server started with PROJECT_MEMORY_PERSIST_RATE_LIMIT. *)
(* call_tool runs on one event loop, so check() calls come one at a time;  *)
(* the server process can stop at any point and be started again over the  *)
(* same database.                                                          *)
(***************************************************************************)
\* DELETE FROM rate_limit_ops WHERE timestamp < cutoff
DeleteExpiredRows(rows, cutoff) == SelectSeq(rows, LAMBDA ts : ts >= cutoff)

\* SELECT timestamp FROM rate_limit_ops WHERE timestamp >= cutoff ORDER BY timestamp
\* (the clock never goes back, so row order is timestamp order)
LoadRows(rows, cutoff) == SelectSeq(rows, LAMBDA ts : ts >= cutoff)

\* the periodic cleanup at the end of an admitted check(): the new values of
\* the table and of _last_cleanup_time
PeriodicCleanup(rows, now) ==
    IF now - _last_cleanup_time >= CleanupInterval
    THEN [rows |-> DeleteExpiredRows(rows, now - window_seconds), last |-> now]
    ELSE [rows |-> rows, last |-> _last_cleanup_time]

InitPersist ==
    /\ rate_limit_ops = <<>>
    /\ _last_cleanup_time = 0
    /\ pl_pc = "idle"
    /\ pl_now = 0

persist_other_vars == <<token_vars, pool_vars, store_vars, tool_vars, lazy_vars, max_ops,
                        window_seconds, limiter_lock, rl_pc, rl_now, rl_cutoff,
                        rl_cfg, rl_track>>

\* PersistentRateLimiter.check() up to the end of the `with self._lock`
\* block: trim, refuse at the limit, else append `now` to the deque
PersistentCheck ==
    /\ pl_pc = "idle"
    /\ Len(rl_hist) < MaxChecks
    /\ LET r == RateLimiterCheck(_operations, clock, clock - window_seconds, max_ops) IN
         /\ _operations' = r.ops
         /\ rl_hist' = Append(rl_hist, [ts |-> clock, at |-> clock, ok |-> r.ok])
         /\ pl_pc' = IF r.ok THEN "persist" ELSE "idle"
         /\ pl_now' = IF r.ok THEN clock ELSE 0
    /\ UNCHANGED <<clock, persist_other_vars, rate_limit_ops, _last_cleanup_time>>

\* the rest of an admitted check(): _persist_operation(now) inserts the row,
\* then the periodic cleanup, return True
PersistOperation ==
    /\ pl_pc = "persist"
    /\ LET r == PeriodicCleanup(Append(rate_limit_ops, pl_now), pl_now) IN
         /\ rate_limit_ops' = r.rows
         /\ _last_cleanup_time' = r.last
    /\ pl_pc' = "idle"
    /\ pl_now' = 0
    /\ UNCHANGED <<clock, persist_other_vars, _operations, rl_hist>>

\* the same when the INSERT raises (database locked, disk full): the
\* exception is logged and swallowed, check() still returns True
PersistOperationFails ==
    /\ pl_pc = "persist"
    /\ LET r == PeriodicCleanup(rate_limit_ops, pl_now) IN
         /\ rate_limit_ops' = r.rows
         /\ _last_cleanup_time' = r.last
    /\ pl_pc' = "idle"
    /\ pl_now' = 0
    /\ UNCHANGED <<clock, persist_other_vars, _operations, rl_hist>>

\* the process stops, wherever it is, and a new one is started:
\* __init__ sets _last_cleanup_time and runs _load_from_db(): delete the
\* expired rows, load the others into a fresh deque
Restart ==
    /\ rate_limit_ops' = DeleteExpiredRows(rate_limit_ops, clock - window_seconds)
    /\ _operations' = LoadRows(rate_limit_ops, clock - window_seconds)
    /\ _last_cleanup_time' = clock
    /\ pl_pc' = "idle"
    /\ pl_now' = 0
    /\ UNCHANGED <<clock, persist_other_vars, rl_hist>>

\* the same when _load_from_db() cannot open the database: the exception is
\* logged and swallowed, the deque stays empty
RestartLoadFails ==
    /\ _operations' = <<>>
    /\ _last_cleanup_time' = clock
    /\ pl_pc' = "idle"
    /\ pl_now' = 0
    /\ UNCHANGED <<clock, persist_other_vars, rl_hist, rate_limit_ops>>

(***************************************************************************)
(* get_db / reset_db_state                                                 *)
(*                                                                         *)
(* db and _db_init_failed are read once outside _db_lock and once more     *)
(* inside it.  ProjectMemoryDB(get_db_path()) runs with the lock held and  *)
(* either returns the instance or raises.                                  *)
(***************************************************************************)
DbCallers == 1..NumDbCallers

\* the exception a failed ProjectMemoryDB(...) raises
InitError == "init_error"

NoResult == [kind |-> "none", error |-> None]

InitLazy ==
    /\ db = None
    /\ _db_init_failed = FALSE
    /\ _db_init_error = None
    /\ _db_lock = 0
    /\ gd_pc = [t \in DbCallers |-> "idle"]
    /\ gd_res = [t \in DbCallers |-> NoResult]
    /\ gd_attempts = 0
    /\ gd_must_fail = [t \in DbCallers |-> FALSE]

lazy_other_vars == <<clock, token_vars, limiter_vars, pool_vars, store_vars, tool_vars,
                     durable_vars>>

\* get_db() returns or raises: the outcome, and the lock is free again if
\* the caller held it
GetDbEnds(t, kind, error) ==
    /\ gd_pc' = [gd_pc EXCEPT ![t] = "idle"]
    /\ gd_res' = [gd_res EXCEPT ![t] = [kind |-> kind, error |-> error]]
    /\ gd_must_fail' = [gd_must_fail EXCEPT ![t] = FALSE]
    /\ _db_lock' = IF _db_lock = t THEN 0 ELSE _db_lock

\* get_db(), fast path: `if db is not None: return db`
GetDbFastPath(t) ==
    /\ gd_pc[t] = "idle"
    /\ IF db # None
       THEN GetDbEnds(t, "db", None)
       ELSE /\ gd_pc' = [gd_pc EXCEPT ![t] = "check_failed"]
            /\ gd_res' = [gd_res EXCEPT ![t] = NoResult]
            /\ gd_must_fail' = [gd_must_fail EXCEPT
                                  ![t] = _db_init_failed /\ _db_init_error # None]
            /\ UNCHANGED _db_lock
    /\ UNCHANGED <<lazy_other_vars, db, _db_init_failed, _db_init_error, gd_attempts>>

\* `if _db_init_failed: raise RuntimeError(... {_db_init_error} ...)`,
\* outside the lock
GetDbCheckFailed(t) ==
    /\ gd_pc[t] = "check_failed"
    /\ IF _db_init_failed
       THEN GetDbEnds(t, "previously_failed", _db_init_error)
       ELSE /\ gd_pc' = [gd_pc EXCEPT ![t] = "lock"]
            /\ UNCHANGED <<gd_res, gd_must_fail, _db_lock>>
    /\ UNCHANGED <<lazy_other_vars, db, _db_init_failed, _db_init_error, gd_attempts>>

\* `with _db_lock:`
GetDbLock(t) ==
    /\ gd_pc[t] = "lock"
    /\ _db_lock = 0
    /\ _db_lock' = t
    /\ gd_pc' = [gd_pc EXCEPT ![t] = "locked"]
    /\ UNCHANGED <<lazy_other_vars, db, _db_init_failed, _db_init_error, gd_res, gd_attempts,
                   gd_must_fail>>

\* the two checks again, inside the lock
GetDbDoubleCheck(t) ==
    /\ gd_pc[t] = "locked"
    /\ IF db # None
       THEN GetDbEnds(t, "db", None)
       ELSE IF _db_init_failed
            THEN GetDbEnds(t, "previously_failed", _db_init_error)
            ELSE /\ gd_pc' = [gd_pc EXCEPT ![t] = "init"]
                 /\ UNCHANGED <<gd_res, gd_must_fail, _db_lock>>
    /\ UNCHANGED <<lazy_other_vars, db, _db_init_failed, _db_init_error, gd_attempts>>

\* new_db = ProjectMemoryDB(get_db_path()); db = new_db; return db
GetDbInitialize(t) ==
    /\ gd_pc[t] = "init"
    /\ db' = "ProjectMemoryDB"
    /\ gd_attempts' = gd_attempts + 1
    /\ GetDbEnds(t, "db", None)
    /\ UNCHANGED <<lazy_other_vars, _db_init_failed, _db_init_error>>

\* a failed initialization that leaves no trace
GetDbInitializeFailsNoMemo(t) ==
    /\ gd_pc[t] = "init"
    /\ gd_attempts' = gd_attempts + 1
    /\ gd_pc' = [gd_pc EXCEPT ![t] = "store_error"]
    /\ UNCHANGED <<lazy_other_vars, db, _db_init_failed, _db_init_error, _db_lock, gd_res,
                   gd_must_fail>>

\* ProjectMemoryDB(...) raises: `except Exception as e: _db_init_failed = True`
GetDbInitializeFails(t) ==
    /\ gd_pc[t] = "init"
    /\ _db_init_failed' = TRUE
    /\ gd_attempts' = gd_attempts + 1
    /\ gd_pc' = [gd_pc EXCEPT ![t] = "store_error"]
    /\ UNCHANGED <<lazy_other_vars, db, _db_init_error, _db_lock, gd_res, gd_must_fail>>

\* `_db_init_error = e; logger.error(...); raise`
GetDbStoreError(t) ==
    /\ gd_pc[t] = "store_error"
    /\ _db_init_error' = InitError
    /\ GetDbEnds(t, "init_error", InitError)
    /\ UNCHANGED <<lazy_other_vars, db, _db_init_failed, gd_attempts>>

\* reset_db_state(): with _db_lock: db = None; _db_init_failed = False;
\* _db_init_error = None
ResetDbState ==
    /\ _db_lock = 0
    /\ db' = None
    /\ _db_init_failed' = FALSE
    /\ _db_init_error' = None
    /\ gd_attempts' = 0
    /\ gd_must_fail' = [t \in DbCallers |-> FALSE]
    /\ UNCHANGED <<lazy_other_vars, _db_lock, gd_pc, gd_res>>

(***************************************************************************)
(* Specifications                                                          *)
(***************************************************************************)
InitAll ==
    /\ clock = 0
    /\ InitToken
    /\ InitLimiter
    /\ rl_track = TRUE
    /\ InitPool
    /\ InitStore
    /\ InitTool
    /\ InitPersist
    /\ InitLazy

InitConfig ==
    /\ clock = 0
    /\ InitToken
    /\ InitLimiter
    /\ rl_track = FALSE
    /\ InitPool
    /\ InitStore
    /\ InitTool
    /\ InitPersist
    /\ InitLazy

\* the limiter's budget is fixed where only the pool runs
InitPoolOnly ==
    /\ InitAll
    /\ max_ops = MaxOpsInit

Next ==
    \/ \E t \in Callers : GetConnection(t)
    \/ \E t \in Callers : InitializeLock(t)
    \/ \E t \in Callers : InitializeCreate(t)
    \/ \E t \in Callers : InitializePut(t)
    \/ \E t \in Callers : InitializeCreateFails(t)
    \/ \E t \in Callers : InitializeDone(t)
    \/ \E t \in Callers : GetNowait(t)
    \/ \E t \in Callers : TempCheck(t)
    \/ \E t \in Callers : TempCreate(t)
    \/ \E t \in Callers : TempCreateFails(t)
    \/ \E t \in Callers : TempCreateFailed(t)
    \/ \E t \in Callers : Release(t)
    \/ \E t \in Callers : Enqueue(t)
    \/ \E t \in Callers : WaitGet(t)
    \/ \E t \in Callers : WaitGetEmpty(t)
    \/ \E t \in Callers : WaitTempCheck(t)
    \/ \E t \in Callers : WaitTimeout(t)
    \/ \E t \in Callers : LeaveWait(t)
    \/ \E t \in Callers : ReturnConnection(t)
    \/ \E t \in Callers : Exit(t)
    \/ CloseAllLock
    \/ CloseAllDrain
    \/ CloseAllDone

\* the connection pool: callers of get_connection() and a thread that may
\* run close_all() at any time
Spec == InitPoolOnly /\ [][Next]_vars

\* positions of a caller that has asked for a connection and has neither
\* been given one nor been refused
AcquirePcs == {"initialize", "init_create", "init_put", "get_nowait", "temp_check", "temp_create",
               "temp_fail", "enqueue", "wait_get", "wait_temp_check"}

\* the steps a caller thread takes by itself once it is inside
\* get_connection(): everything but the start of a call and the end of the
\* caller's with-block
CallerProgress(t) ==
    \/ InitializeLock(t)
    \/ InitializeCreate(t)
    \/ InitializePut(t)
    \/ InitializeCreateFails(t)
    \/ InitializeDone(t)
    \/ GetNowait(t)
    \/ TempCheck(t)
    \/ TempCreate(t)
    \/ TempCreateFails(t)
    \/ TempCreateFailed(t)
    \/ Enqueue(t)
    \/ WaitGet(t)
    \/ WaitGetEmpty(t)
    \/ WaitTempCheck(t)
    \/ WaitTimeout(t)
    \/ LeaveWait(t)
    \/ ReturnConnection(t)
    \/ Exit(t)

\* callers only (close_all() is never called); every thread that can take a
\* step eventually takes one, and a thread that asks for self._lock gets it
\* if the lock is free again and again
NextLive ==
    \/ \E t \in Callers : GetConnection(t)
    \/ \E t \in Callers : Release(t)
    \/ \E t \in Callers : CallerProgress(t)

SpecLive ==
    /\ InitPoolOnly
    /\ [][NextLive]_vars
    /\ \A t \in 1..NumCallers : WF_vars(CallerProgress(t))
    /\ \A t \in 1..NumCallers : SF_vars(InitializeLock(t))

\* the steps of a caller inside get_connection() when no connection
\* creation fails
CallerSteps(t) ==
    \/ InitializeLock(t)
    \/ InitializeCreate(t)
    \/ InitializePut(t)
    \/ InitializeDone(t)
    \/ GetNowait(t)
    \/ TempCheck(t)
    \/ TempCreate(t)
    \/ Enqueue(t)
    \/ WaitGet(t)
    \/ WaitGetEmpty(t)
    \/ WaitTempCheck(t)
    \/ WaitTimeout(t)
    \/ LeaveWait(t)
    \/ ReturnConnection(t)
    \/ Exit(t)

NextFair ==
    \/ \E t \in Callers : GetConnection(t)
    \/ \E t \in Callers : Release(t)
    \/ \E t \in Callers : CallerSteps(t)

\* callers that come and go, no creation failure, no close_all(); every
\* thread that can take a step eventually takes one, a thread that asks for
\* self._lock gets it if the lock is free again and again, and a caller
\* blocked in the wait loop's get() gets a connection if one is in the queue
\* again and again
SpecFair ==
    /\ InitPoolOnly
    /\ [][NextFair]_vars
    /\ \A t \in 1..NumCallers : WF_vars(CallerSteps(t))
    /\ \A t \in 1..NumCallers : SF_vars(InitializeLock(t))
    /\ \A t \in 1..NumCallers : SF_vars(WaitGet(t))

\* callers that come and go and a thread that calls close_all(), with no
\* creation failure
NextReuse ==
    \/ \E t \in Callers : GetConnection(t)
    \/ \E t \in Callers : Release(t)
    \/ \E t \in Callers : CallerSteps(t)
    \/ CloseAllLock
    \/ CloseAllDrain
    \/ CloseAllDone

SpecReuse == InitPoolOnly /\ [][NextReuse]_vars

\* callers inside get_connection(): acquiring, using a connection or
\* releasing it
Inside == {t \in Callers : pc[t] \notin {"idle", "exit", "raise"}}

\* a caller calls get_connection() only while fewer than
\* pool_size + MAX_TEMP_CONNECTIONS callers are inside it
GetConnectionWithin(t) ==
    /\ Cardinality(Inside) < pool_size + MAX_TEMP_CONNECTIONS
    /\ GetConnection(t)

NextWithin ==
    \/ \E t \in Callers : GetConnectionWithin(t)
    \/ \E t \in Callers : Release(t)
    \/ \E t \in Callers : InitializeLock(t)
    \/ \E t \in Callers : InitializeCreate(t)
    \/ \E t \in Callers : InitializePut(t)
    \/ \E t \in Callers : InitializeDone(t)
    \/ \E t \in Callers : GetNowait(t)
    \/ \E t \in Callers : TempCheck(t)
    \/ \E t \in Callers : TempCreate(t)
    \/ \E t \in Callers : ReturnConnection(t)
    \/ \E t \in Callers : Exit(t)

\* callers that acquire and release again and again, never more than
\* pool_size + MAX_TEMP_CONNECTIONS of them inside get_connection() at once;
\* no connection creation fails, close_all() is not called (a caller that
\* came to the wait-queue test would stay there: the property below says
\* that none does)
SpecWithin == InitPoolOnly /\ [][NextWithin]_vars

\* callers whose with-blocks may raise any exception, queue.Empty included;
\* close_all() is not called
NextBody ==
    \/ \E t \in Callers : GetConnection(t)
    \/ \E t \in Callers : Release(t)
    \/ \E t \in Callers : BodyRaisesEmpty(t)
    \/ \E t \in Callers : CallerProgress(t)

SpecBody == InitPoolOnly /\ [][NextBody]_vars

\* the exhaustion scenario: as many callers as the pool, the temporary
\* limit and the wait queue hold together
ScenarioCallers == MaxPoolSize + MAX_TEMP_CONNECTIONS + MAX_WAIT_QUEUE_SIZE

InitScenario ==
    /\ clock = 0
    /\ InitToken
    /\ InitLimiter
    /\ rl_track = TRUE
    /\ max_ops = MaxOpsInit
    /\ InitPoolWith(ScenarioCallers)
    /\ pool_size = MaxPoolSize
    /\ InitStore
    /\ InitTool
    /\ InitPersist
    /\ InitLazy

\* every caller has started its call and none is still acquiring
AllSettled == \A t \in Callers : pc[t] \notin (AcquirePcs \cup {"idle"})

\* a caller's with-block lasts longer than the wait timeout: it ends only
\* when every waiting caller has timed out
ScenarioRelease(t) ==
    /\ AllSettled
    /\ Release(t)

\* each caller calls get_connection() once (no caller returns to call
\* again), connections are created without failures, close_all() is not called
NextScenario ==
    \/ \E t \in Callers : GetConnection(t)
    \/ \E t \in Callers : InitializeLock(t)
    \/ \E t \in Callers : InitializeCreate(t)
    \/ \E t \in Callers : InitializePut(t)
    \/ \E t \in Callers : InitializeDone(t)
    \/ \E t \in Callers : GetNowait(t)
    \/ \E t \in Callers : TempCheck(t)
    \/ \E t \in Callers : TempCreate(t)
    \/ \E t \in Callers : Enqueue(t)
    \/ \E t \in Callers : WaitGetEmpty(t)
    \/ \E t \in Callers : WaitTempCheck(t)
    \/ \E t \in Callers : WaitTimeout(t)
    \/ \E t \in Callers : LeaveWait(t)
    \/ \E t \in Callers : ScenarioRelease(t)
    \/ \E t \in Callers : ReturnConnection(t)

SpecScenario == InitScenario /\ [][NextScenario]_vars

NextToken ==
    \/ Tick
    \/ \E token \in Tokens : set_purge_token(token)
    \/ \E provided \in ProvidedTokens : validate_and_clear_purge_token(provided)

SpecToken == InitAll /\ [][NextToken]_vars

NextLimiter ==
    \/ Tick
    \/ \E t \in LimiterCallers : CheckReadClock(t)
    \/ \E t \in LimiterCallers : CheckLocked(t)
    \/ \E t \in LimiterCallers : RemainingReadClock(t)
    \/ \E t \in LimiterCallers : RemainingLocked(t)
    \/ \E t \in LimiterCallers : Reset(t)

\* callers that only check(), remaining() and reset(); rl_hist records
\* every decision
SpecLimiter == InitAll /\ [][NextLimiter]_vars

NextLimiterConfig ==
    \/ NextLimiter
    \/ \E t \in LimiterCallers : \E a \in ConfigMaxOps : \E b \in ConfigWindow :
          Configure(t, a, b)

\* the same callers, which also configure() at runtime; no history is kept
SpecLimiterConfig == InitConfig /\ [][NextLimiterConfig]_vars

\* limiter budget and pool size fixed where neither is exercised
InitFixed ==
    /\ InitAll
    /\ max_ops = MaxOpsInit
    /\ pool_size = MaxPoolSize

\* one writer at a time: a call runs to its end before the next one starts
NextStoreSeq ==
    \/ add_decision(1)
    \/ \E k \in Names : upsert_pattern(1, k)
    \/ \E k \in Keys : set_context(1, k)
    \/ StoreInsert(1)
    \/ StoreInsertFails(1)

SpecStoreSeq == InitFixed /\ [][NextStoreSeq]_vars

\* concurrent writers
NextStore ==
    \/ \E w \in Writers : add_decision(w)
    \/ \E w \in Writers, k \in Names : upsert_pattern(w, k)
    \/ \E w \in Writers, k \in Keys : set_context(w, k)
    \/ \E w \in Writers : StoreInsert(w)
    \/ \E w \in Writers : StoreInsertFails(w)

SpecStore == InitFixed /\ [][NextStore]_vars

\* one writer of the keyed tables, with calls in the same and in later seconds
NextKeyed ==
    \/ Tick
    \/ \E k \in Names : upsert_pattern(1, k)
    \/ \E k \in Keys : set_context(1, k)
    \/ StoreInsert(1)
    \/ StoreInsertFails(1)

SpecKeyed == InitFixed /\ [][NextKeyed]_vars

\* threads that call get_db(), and one that calls reset_db_state()
NextLazy ==
    \/ \E t \in DbCallers : GetDbFastPath(t)
    \/ \E t \in DbCallers : GetDbCheckFailed(t)
    \/ \E t \in DbCallers : GetDbLock(t)
    \/ \E t \in DbCallers : GetDbDoubleCheck(t)
    \/ \E t \in DbCallers : GetDbInitialize(t)
    \/ \E t \in DbCallers : GetDbInitializeFails(t)
    \/ \E t \in DbCallers : GetDbStoreError(t)
    \/ ResetDbState

SpecLazy == InitFixed /\ [][NextLazy]_vars

\* the tool dispatcher: calls arrive one at a time on the event loop; a
\* client confirms a purge with a string it has read in a response, or with a
\* guess that matches no token
NextTool ==
    \/ Tick
    \/ \E c \in Clients, n \in MutatingTools \cup ReadOnlyTools : ToolRateLimited(c, n)
    \/ \E c \in Clients, n \in ReadOnlyTools : ToolRead(c, n)
    \/ \E c \in Clients : ToolExportMemory(c)
    \/ \E c \in Clients : ToolHealthCheck(c)
    \/ \E c \in Clients, d \in {"", "d"} : ToolRememberDecision(c, d)
    \/ \E c \in Clients, k \in Keys : ToolStorePattern(c, k)
    \/ \E c \in Clients, k \in Keys : ToolSetContext(c, k)
    \/ \E c \in Clients, d \in ImportPayloads, m \in BOOLEAN : ToolImportMemory(c, d, m)
    \/ \E c \in Clients, tok \in Tokens : ToolPurgeRequest(c, tok)
    \/ \E c \in Clients, tok \in ProvidedTokens : ToolPurgeConfirm(c, tok)
    \/ \E c \in Clients, tok \in ProvidedTokens, done \in PurgeFailurePoints :
          ToolPurgeConfirmFails(c, tok, done)

SpecTool == InitFixed /\ [][NextTool]_vars

\* the persistent limiter with a budget of DurableMaxOps
InitDurable ==
    /\ clock = 0
    /\ InitToken
    /\ max_ops = DurableMaxOps
    /\ window_seconds = WINDOW_SECONDS
    /\ _operations = <<>>
    /\ limiter_lock = 0
    /\ rl_pc = [t \in LimiterCallers |-> "idle"]
    /\ rl_now = [t \in LimiterCallers |-> 0]
    /\ rl_cutoff = [t \in LimiterCallers |-> 0]
    /\ rl_cfg = [t \in LimiterCallers |-> FALSE]
    /\ rl_hist = <<>>
    /\ rl_track = TRUE
    /\ InitPool
    /\ pool_size = MaxPoolSize
    /\ InitStore
    /\ InitTool
    /\ InitPersist
    /\ InitLazy

NextDurable ==
    \/ Tick
    \/ PersistentCheck
    \/ PersistOperation
    \/ PersistOperationFails
    \/ Restart
    \/ RestartLoadFails

\* a server with the persistent limiter that is stopped and restarted at
\* arbitrary points
SpecDurable == InitDurable /\ [][NextDurable]_vars

(***************************************************************************)
(* Properties of the rate limiter                                          *)
(***************************************************************************)
\* indices of the admitted check() calls recorded since the last reset()
AdmittedIdx == {i \in DOMAIN rl_hist : rl_hist[i].ok}

\* the values the clock takes
ClockValues == {k * TickSeconds : k \in 0..(MaxTime \div TickSeconds)}

\* the ways to date every admitted call at an instant between the moment it
\* read the clock (ts) and the moment its decision was taken under the lock (at)
AdmissionDatings ==
    {tau \in [AdmittedIdx -> ClockValues] :
        \A i \in AdmittedIdx : rl_hist[i].ts <= tau[i] /\ tau[i] <= rl_hist[i].at}

\* C4: in any window of window_seconds at most max_ops check() calls are
\* admitted, for every interleaving of concurrent callers: the admitted calls
\* can be dated, each within its own duration, so that no window
\* [s, s + window_seconds) holds more than max_ops of them.
C4_WindowBudget ==
    \E tau \in AdmissionDatings :
        \A i \in AdmittedIdx :
            Cardinality({j \in AdmittedIdx :
                tau[i] <= tau[j] /\ tau[j] < tau[i] + window_seconds}) <= max_ops

\* the first k recorded check() calls were made in immediate succession:
\* they read the same clock value and were decided at that same time
Burst(k) ==
    /\ Len(rl_hist) >= k
    /\ \A i \in 1..k : rl_hist[i].ts = rl_hist[1].ts /\ rl_hist[i].at = rl_hist[1].ts

\* C5: on a fresh limiter with max_ops = n and window w, n check() calls in
\* immediate succession are all admitted, the next one is rejected, and a
\* check() made more than w after the first is admitted again.
C5_BurstThenExpiry ==
    /\ \A k \in 1..Len(rl_hist) : (k <= max_ops /\ Burst(k)) => rl_hist[k].ok
    /\ Burst(max_ops + 1) => ~rl_hist[max_ops + 1].ok
    /\ (/\ Burst(max_ops + 1)
        /\ Len(rl_hist) >= max_ops + 2
        /\ rl_hist[max_ops + 2].ts > rl_hist[1].ts + window_seconds)
          => rl_hist[max_ops + 2].ok

\* the whole scenario of C5 has happened
C5_Witness ==
    /\ Burst(max_ops + 1)
    /\ Len(rl_hist) >= max_ops + 2
    /\ rl_hist[max_ops + 2].ts > rl_hist[1].ts + window_seconds
    /\ rl_hist[max_ops + 2].ok

\* the timestamps of a deque that are not older than the cutoff
Unexpired(ops, cutoff) == SelectSeq(ops, LAMBDA x : x >= cutoff)

\* ops2 is ops1 without its first k elements
DropsPrefix(ops1, ops2, k) == ops2 = SubSeq(ops1, k + 1, Len(ops1))

\* C6: a rejected check() records nothing (only expired timestamps leave
\* the deque, so the unexpired timestamps and remaining() are the same
\* before and after); an admitted check() appends exactly one timestamp,
\* its own `now`.
C6_RejectedCheckRecordsNothing ==
    [][\A t \in LimiterCallers :
          (rl_pc[t] = "check_cs" /\ rl_pc'[t] = "idle") =>
            LET cut == rl_cutoff[t]
                ok == rl_hist'[Len(rl_hist')].ok
            IN  IF ok
                THEN /\ \E k \in 0..Len(_operations) :
                           /\ \A i \in 1..k : _operations[i] < cut
                           /\ _operations' =
                                Append(SubSeq(_operations, k + 1, Len(_operations)),
                                       rl_now[t])
                     /\ Unexpired(_operations', cut) =
                          Append(Unexpired(_operations, cut), rl_now[t])
                ELSE /\ \E k \in 0..Len(_operations) :
                           /\ \A i \in 1..k : _operations[i] < cut
                           /\ DropsPrefix(_operations, _operations', k)
                     /\ Unexpired(_operations', cut) = Unexpired(_operations, cut)
                     /\ RateLimiterRemaining(_operations', cut, max_ops).val =
                          RateLimiterRemaining(_operations, cut, max_ops).val
      ]_vars

\* a check() was rejected while an earlier admission was still recorded
C6_Witness ==
    \E i \in DOMAIN rl_hist :
        /\ ~rl_hist[i].ok
        /\ \E j \in 1..(i - 1) : rl_hist[j].ok
        /\ _operations # <<>>

NonDecreasing(ops) == \A i, j \in DOMAIN ops : i < j => ops[i] <= ops[j]

\* a caller leaves the critical section of check()
CheckDecided(t) == rl_pc[t] = "check_cs" /\ rl_pc'[t] = "idle"

\* C32: check() admits exactly when fewer than max_ops recorded admissions
\* have a timestamp >= now - window_seconds, also with concurrent callers
\* that each read `now` before the critical section: the deque stays in
\* non-decreasing order, and after the trim no timestamp older than the
\* caller's cutoff is left in it to count against the budget.
C32_AdmitsIffUnexpiredBelowMax ==
    [][\A t \in LimiterCallers :
          CheckDecided(t) =>
            /\ rl_hist'[Len(rl_hist')].ok
                  <=> Len(Unexpired(_operations, rl_cutoff[t])) < max_ops
            /\ \A i \in DOMAIN _operations' : _operations'[i] >= rl_cutoff[t]
            /\ NonDecreasing(_operations')
      ]_vars

\* C33: the deque of the limiter never holds more than max_ops timestamps,
\* in every reachable state, also after configure() has changed max_ops at
\* runtime.
C33_WindowWithinMaxOps == Len(_operations) <= max_ops

\* C8: configure(a, b) with a >= 1 and b >= 1 terminates and returns the new
\* configuration: a caller inside configure() is never waiting for the
\* limiter lock while holding that lock itself.
C8_ConfigureReturns ==
    \A t \in LimiterCallers :
        (rl_cfg[t] /\ rl_pc[t] = "remaining_cs") => limiter_lock # t

\* configure(a, b) is called with a value it rejects
InvalidConfigure(a, b) == (a # NoArg /\ a < 1) \/ (b # NoArg /\ b < 1)

\* C38: a configure() call with an invalid value (max_ops < 1 or
\* window_seconds < 1) raises ValueError, leaves max_ops and window_seconds
\* as they were, also when the other argument of the call is valid, and
\* leaves the limiter lock released.
C38_InvalidConfigureChangesNothing ==
    [][\A t \in LimiterCallers : \A a \in ConfigMaxOps : \A b \in ConfigWindow :
          (InvalidConfigure(a, b) /\ Configure(t, a, b)) =>
             /\ ~rl_cfg'[t]
             /\ rl_pc'[t] = "idle"
             /\ limiter_lock' = 0
             /\ max_ops' = max_ops
             /\ window_seconds' = window_seconds
      ]_vars
\* C22: rate state survives a restart of the persistent limiter: every
\* operation admitted before the restart and still inside the window is
\* counted afterwards, so the number of admissions in any window of
\* window_seconds stays <= max_ops across restarts, whenever the restart
\* occurs (between the in-memory admission and its INSERT, or after an
\* INSERT that failed, included).
C22_BudgetSurvivesRestart ==
    \A i \in AdmittedIdx :
        Cardinality({j \in AdmittedIdx :
            rl_hist[i].ts <= rl_hist[j].ts /\ rl_hist[j].ts < rl_hist[i].ts + window_seconds})
          <= max_ops


(***************************************************************************)
(* Properties of the purge token                                           *)
(***************************************************************************)
\* C9: at most one token is pending and issuing always replaces it: the
\* pending token is the one of the latest issue, expiring PURGE_TOKEN_TTL
\* after that issue, and a confirmation succeeds only with the token of the
\* latest issue, before that expiry.
C9_IssueReplaces ==
    /\ Truthy(_pending_purge_token) =>
         /\ tk_issues # <<>>
         /\ _pending_purge_token = tk_issues[Len(tk_issues)].token
         /\ _purge_token_expires = tk_issues[Len(tk_issues)].at + PURGE_TOKEN_TTL
    /\ tk_last.success =>
         /\ tk_last.issue >= 1
         /\ tk_last.provided = tk_issues[tk_last.issue].token
         /\ tk_last.at < tk_issues[tk_last.issue].at + PURGE_TOKEN_TTL

\* t1 then t2 were issued, and t1 was presented while it would still
\* have been valid: it was refused
C9_Witness ==
    /\ Len(tk_issues) >= 2
    /\ tk_issues[1].token # tk_issues[2].token
    /\ tk_last.issue = 2
    /\ tk_last.provided = tk_issues[1].token
    /\ tk_last.at < tk_issues[1].at + PURGE_TOKEN_TTL
    /\ ~tk_last.success
    /\ tk_last.expected = tk_issues[2].token

\* C10: a purge token is single-use: no issue is consumed by more than one
\* successful validate_and_clear_purge_token call.
C10_SingleUse ==
    \A i, j \in DOMAIN tk_accepts :
        i # j => tk_accepts[i] # tk_accepts[j]

\* the token of an issue that was accepted was presented again before its
\* expiry, with no issue in between, and was refused
C10_Witness ==
    /\ tk_last.issue >= 1
    /\ \E i \in DOMAIN tk_accepts : tk_accepts[i] = tk_last.issue
    /\ tk_last.provided = tk_issues[tk_last.issue].token
    /\ tk_last.at < tk_issues[tk_last.issue].at + PURGE_TOKEN_TTL
    /\ ~tk_last.success


(***************************************************************************)
(* Claims about ConnectionPool                                             *)
(***************************************************************************)
\* callers inside their with-block, each with the connection it was yielded
Holders == {t \in Callers : pc[t] = "hold"}

\* pooled connections taken from the queue and not yet given back
CheckedOut ==
    {t \in Callers : /\ pc[t] \in {"hold", "leave_wait", "return_conn"}
                     /\ conn[t] # 0
                     /\ ~is_temp_connection[t]}

\* C1: with a pool of k connections and at most m temporary ones, and only
\* get_connection() calls and their releases going on, the number of
\* connections held by callers at the same time (pooled plus temporary) is
\* never more than k + m.
C1_HeldAtMostPoolPlusTemp ==
    ~ever_closed => Cardinality(Holders) <= pool_size + MAX_TEMP_CONNECTIONS

\* k + m connections are held, one of them temporary, while a further caller
\* waits in the queue
C1_Witness ==
    /\ ~ever_closed
    /\ Cardinality(Holders) = pool_size + MAX_TEMP_CONNECTIONS
    /\ \E t \in Holders : is_temp_connection[t]
    /\ \E t \in Callers : pc[t] = "wait_get" /\ in_wait[t]

\* C2: _active_temp_connections stays between 0 and MAX_TEMP_CONNECTIONS in
\* every state, whatever the interleaving of acquires, releases and failed
\* creations of temporary connections on the direct and on the wait-queue
\* path.
C2_ActiveTempInRange ==
    /\ 0 <= _active_temp_connections
    /\ _active_temp_connections <= MAX_TEMP_CONNECTIONS

\* a temporary creation has just failed on the wait-queue path and has given
\* its slot back, while another caller's temporary connection fills the limit
C2_Witness ==
    /\ _active_temp_connections = MAX_TEMP_CONNECTIONS
    /\ \E t \in Callers : /\ pc[t] = "leave_wait"
                          /\ err[t] = "create_failed"
                          /\ is_temp_connection[t]
    /\ \E t \in Holders : is_temp_connection[t]

\* C3: whenever the pool is initialized (and close_all() is not in the middle
\* of draining it), the connections available in the queue plus the pooled
\* connections checked out by callers number exactly pool_size; close_all()
\* followed by a re-initialization included.
C3_AvailablePlusCheckedOut ==
    (_initialized /\ close_pc = "idle")
        => Len(_pool) + Cardinality(CheckedOut) = pool_size

\* the connections a caller has been given and has not yet released: for a
\* temporary one up to its close, for a pooled one up to its return
InUse ==
    {t \in Callers : /\ conn[t] # 0
                     /\ \/ pc[t] = "hold"
                        \/ pc[t] \in {"leave_wait", "return_conn"} /\ ~is_temp_connection[t]}

\* the connections waiting in the queue
Available == {_pool[i] : i \in DOMAIN _pool}

\* C23: a connection is held by at most one caller at a time: no pooled or
\* temporary connection is in use by two get_connection() callers at once,
\* none is both available in the queue and in use by a caller, and none is
\* in the queue twice; close_all() and re-initialization included.
C23_HandleHeldByOneCaller ==
    /\ \A t, u \in InUse : t # u => conn[t] # conn[u]
    /\ \A t \in InUse : conn[t] \notin Available
    /\ Cardinality(Available) = Len(_pool)

\* two callers use connections of the pool that close_all() has since
\* drained, a third uses a temporary one, and the re-initialized pool has
\* connections available
C23_Witness ==
    /\ ever_closed
    /\ Cardinality({t \in Holders : ~is_temp_connection[t]}) >= 2
    /\ \E t \in Holders : is_temp_connection[t]
    /\ _initialized
    /\ _pool # <<>>

\* callers that have taken a temporary slot and not yet given it back: about
\* to create the connection, in the except branch before the decrement, or
\* using the temporary connection
TempSlotOwners ==
    {t \in Callers : \/ pc[t] \in {"temp_create", "temp_fail"}
                     \/ pc[t] = "hold" /\ is_temp_connection[t]}

\* C24: when creating a temporary connection fails, _active_temp_connections
\* is decremented before the failure propagates, on the direct path and on
\* the wait-queue path alike: a caller whose creation failure is propagating
\* holds no slot, and the counter is exactly the number of callers that hold
\* one, so after any number of failed creations the whole overflow capacity
\* is available again.
C24_FailedCreationReturnsSlot ==
    /\ _active_temp_connections = Cardinality(TempSlotOwners)
    /\ \A t \in Callers : err[t] = "create_failed" => t \notin TempSlotOwners

\* a creation failure is propagating on the direct path and another on the
\* wait-queue path, and no temporary slot is counted
C24_Witness ==
    /\ \E t \in Callers : pc[t] = "raise" /\ err[t] = "create_failed" /\ ~in_wait[t]
    /\ \E t \in Callers : pc[t] = "leave_wait" /\ err[t] = "create_failed" /\ in_wait[t]
    /\ _active_temp_connections = 0

\* callers with a pooled connection in `conn` that is in use or that the
\* finally blocks of the call still return
PooledInHand ==
    {t \in Callers : /\ conn[t] # 0
                     /\ ~is_temp_connection[t]
                     /\ pc[t] \notin {"idle", "exit", "raise", "init_put"}}

\* C25: a connection is released on every exit path of get_connection(),
\* the normal end of the caller's with-block and any exception raised in it:
\* a pooled connection goes back into the queue (with the pool initialized
\* and close_all() never called, the connections in the queue and those
\* callers still have in hand are always pool_size), and a temporary
\* connection is closed and gives back its slot exactly once
\* (_active_temp_connections is the number of callers holding a slot).
C25_ReleasedOnEveryExitPath ==
    /\ (_initialized /\ ~ever_closed) =>
          Len(_pool) + Cardinality(PooledInHand) = pool_size
    /\ _active_temp_connections = Cardinality(TempSlotOwners)
    /\ \A t \in Callers : (pc[t] = "exit" /\ is_temp_connection[t]) => conn[t] = 0

\* C26: get_connection() tries the pool first, then a temporary connection,
\* then the wait queue.  A caller comes to the temporary-slot test only from
\* a get on the queue that found it empty (get_nowait(), or get() in the
\* wait loop); it takes a temporary slot only with
\* _active_temp_connections < MAX_TEMP_CONNECTIONS in the very step that
\* increments the counter; and it enters the wait queue only after that
\* test, made after the failed get_nowait(), found the temporary capacity
\* saturated.
C26_PooledThenTempThenQueue ==
    [][\A t \in Callers :
         /\ (pc[t] # "temp_check" /\ pc'[t] = "temp_check")
               => (pc[t] = "get_nowait" /\ _pool = <<>> /\ conn'[t] = 0)
         /\ (pc[t] # "wait_temp_check" /\ pc'[t] = "wait_temp_check")
               => (pc[t] = "wait_get" /\ _pool = <<>> /\ conn'[t] = 0)
         /\ (pc[t] # "temp_create" /\ pc'[t] = "temp_create")
               => /\ pc[t] \in {"temp_check", "wait_temp_check"}
                  /\ _active_temp_connections < MAX_TEMP_CONNECTIONS
                  /\ _active_temp_connections' = _active_temp_connections + 1
         /\ (pc[t] # "enqueue" /\ pc'[t] = "enqueue")
               => (pc[t] = "temp_check"
                     /\ _active_temp_connections >= MAX_TEMP_CONNECTIONS)
         /\ (~in_wait[t] /\ in_wait'[t]) => pc[t] = "enqueue"
      ]_vars

\* a caller that went through all three stages: it found the pool empty and
\* the temporary limit reached, entered the wait queue, and has now taken
\* the temporary slot freed in the meantime, while the pool is still empty
\* and another caller uses a pooled connection
C26_Witness ==
    \E t \in Callers :
        /\ pc[t] = "temp_create"
        /\ in_wait[t]
        /\ _pool = <<>>
        /\ _active_temp_connections = MAX_TEMP_CONNECTIONS
        /\ \E u \in Holders : ~is_temp_connection[u]

\* C28: when never more than pool_size + MAX_TEMP_CONNECTIONS callers are
\* inside get_connection() at the same time (acquiring, holding or
\* releasing) and no connection creation fails, no acquire fails and no
\* caller comes to the wait queue, for every interleaving of repeated
\* acquires and releases.
C28_NoQueueWithinCapacity ==
    \A t \in Callers :
        /\ err[t] = "none"
        /\ ~in_wait[t]
        /\ pc[t] \notin {"enqueue", "wait_get", "wait_temp_check", "leave_wait", "raise"}

\* pool_size + MAX_TEMP_CONNECTIONS callers use a connection at the same
\* time, the last of them a temporary one, after an earlier temporary
\* connection has been closed; nobody has failed or queued
C28_Witness ==
    /\ Cardinality(Holders) = pool_size + MAX_TEMP_CONNECTIONS
    /\ \E t \in Holders : is_temp_connection[t]
    /\ \E t \in Callers : pc[t] = "exit" /\ is_temp_connection[t]
    /\ \A t \in Callers : err[t] = "none" /\ ~in_wait[t]


(***************************************************************************)
(* Properties of the bounded tables                                        *)
(***************************************************************************)
\* every table within its capacity
WithinCapacity ==
    /\ Len(decisions) <= MAX_DECISIONS
    /\ Len(patterns) <= MAX_PATTERNS
    /\ Len(context) <= MAX_CONTEXT_KEYS

\* C13: when add_decision / upsert_pattern / set_context are called one after
\* the other, starting from empty tables, each table has at most its capacity
\* of rows (MAX_DECISIONS / MAX_PATTERNS / MAX_CONTEXT_KEYS) after every call
\* and at every step inside a call.
C13_SizeWithinCapacitySequential == WithinCapacity

\* a call_tool step that wrote to the store through import_memory or one of
\* the three inserting tools
WritingCall ==
    /\ tool_n' = tool_n + 1
    /\ tool_last'.mutated
    /\ tool_last'.name \in {"import_memory", "remember_decision", "store_pattern",
                            "set_context"}

\* C40: after import_data (merge or replace) each table has at most its
\* capacity of rows (MAX_DECISIONS / MAX_PATTERNS / MAX_CONTEXT_KEYS), and so
\* it has after every insert, those that follow an import included.
C40_CapacityCoversImport == [][WritingCall => WithinCapacity']_vars

\* all three tables are full, the oldest decisions have been evicted, the
\* keyed tables hold the later keys, and no call is in progress
C13_Witness ==
    /\ \A w \in Writers : st_pc[w] = "idle"
    /\ Len(decisions) = MAX_DECISIONS
    /\ Head(decisions) > 1
    /\ Len(patterns) = MAX_PATTERNS
    /\ Len(context) = MAX_CONTEXT_KEYS
    /\ KeySet(patterns) \cup KeySet(context) = {"b", "c", "d"}
    /\ next_id > MAX_DECISIONS + DecisionDeleteCount

\* C14: with writers running add_decision / upsert_pattern / set_context
\* concurrently, no state a reader can see has a table with more rows than
\* its capacity.
C14_SizeWithinCapacityConcurrent ==
    /\ Len(decisions) <= MAX_DECISIONS
    /\ Len(patterns) <= MAX_PATTERNS
    /\ Len(context) <= MAX_CONTEXT_KEYS

\* writer 1 takes the first step of add_decision (the limit check)
AddDecisionEnforces ==
    /\ st_pc[1] = "idle"
    /\ st_pc'[1] = "insert"
    /\ st_op'[1].coll = "decisions"

\* writer 1 takes the second step of add_decision and the INSERT succeeds
AddDecisionInserts ==
    /\ st_pc[1] = "insert"
    /\ st_op[1].coll = "decisions"
    /\ st_pc'[1] = "idle"
    /\ decisions' # decisions

\* C29: an add_decision made when the decisions table holds exactly
\* MAX_DECISIONS rows first removes the max(1, MAX_DECISIONS div 10) rows
\* with the oldest timestamps and then inserts one row, which leaves
\* MAX_DECISIONS - max(1, MAX_DECISIONS div 10) + 1 rows; an add_decision
\* made below capacity removes nothing.
C29_DecisionEvictionCount ==
    [][/\ AddDecisionEnforces =>
            /\ Len(decisions) = MAX_DECISIONS =>
                  /\ decisions' = SubSeq(decisions, Max(1, MAX_DECISIONS \div 10) + 1,
                                         MAX_DECISIONS)
                  /\ Len(decisions') = MAX_DECISIONS - Max(1, MAX_DECISIONS \div 10)
            /\ Len(decisions) < MAX_DECISIONS => decisions' = decisions
       /\ AddDecisionInserts =>
            /\ decisions' = Append(decisions, next_id)
            /\ \A i \in DOMAIN decisions : decisions[i] < next_id
            /\ Len(decisions) = MAX_DECISIONS - Max(1, MAX_DECISIONS \div 10) =>
                  Len(decisions') = MAX_DECISIONS - Max(1, MAX_DECISIONS \div 10) + 1
      ]_vars

\* the add_decision call made on a full table has returned: the oldest tenth
\* is gone and the new row is the last one
C29_Witness ==
    /\ st_pc[1] = "idle"
    /\ next_id = MAX_DECISIONS + 2
    /\ Len(decisions) = MAX_DECISIONS - DecisionDeleteCount + 1
    /\ Head(decisions) = DecisionDeleteCount + 1
    /\ decisions[Len(decisions)] = MAX_DECISIONS + 1

\* writer 1 takes the first step of upsert_pattern / set_context (the limit
\* check) for a key the table does not hold, with the table at capacity
NewKeyAtCapacity(coll, rows, capacity) ==
    /\ st_pc[1] = "idle"
    /\ st_pc'[1] = "insert"
    /\ st_op'[1].coll = coll
    /\ st_op'[1].key \notin KeySet(rows)
    /\ Len(rows) = capacity

\* writer 1 takes the second step of upsert_pattern / set_context and the
\* INSERT succeeds
KeyedInsert(coll) ==
    /\ st_pc[1] = "insert"
    /\ st_op[1].coll = coll
    /\ st_pc'[1] = "idle"
    /\ st_op'[1] = NoOp

\* C30: for patterns and context, inserting a new key when the table is at
\* capacity removes exactly one entry, the one whose last insert or update
\* is the oldest, and every other entry is still present afterwards (the
\* INSERT that follows adds the new key and removes nothing).
C30_EvictsLeastRecentlyUpdated ==
    [][/\ NewKeyAtCapacity("patterns", patterns, MAX_PATTERNS) =>
            RowKeys(patterns') = Tail(RowKeys(patterns))
       /\ NewKeyAtCapacity("context", context, MAX_CONTEXT_KEYS) =>
            RowKeys(context') = Tail(RowKeys(context))
       /\ KeyedInsert("patterns") /\ patterns' # patterns =>
            KeySet(patterns') = KeySet(patterns) \cup {st_op[1].key}
       /\ KeyedInsert("context") /\ context' # context =>
            KeySet(context') = KeySet(context) \cup {st_op[1].key}
      ]_vars

\* writer 1 takes the first step of upsert_pattern / set_context (the limit
\* check) for a key the table already holds
UpdateOfExistingKey(coll, rows) ==
    /\ st_pc[1] = "idle"
    /\ st_pc'[1] = "insert"
    /\ st_op'[1].coll = coll
    /\ st_op'[1].key \in KeySet(rows)

\* C31: upsert_pattern / set_context on a key that already exists removes
\* no entry, also when the table is exactly at capacity: no other key is
\* lost in the limit check, and after the INSERT the set of keys is the one
\* from before the call.
C31_UpdateEvictsNothing ==
    [][/\ UpdateOfExistingKey("patterns", patterns) =>
            KeySet(patterns) \ {st_op'[1].key} \subseteq KeySet(patterns')
       /\ UpdateOfExistingKey("context", context) =>
            KeySet(context) \ {st_op'[1].key} \subseteq KeySet(context')
       /\ KeyedInsert("patterns") /\ patterns' # patterns =>
            KeySet(patterns) \ {st_op[1].key} = KeySet(patterns') \ {st_op[1].key}
       /\ KeyedInsert("context") /\ context' # context =>
            KeySet(context) \ {st_op[1].key} = KeySet(context') \ {st_op[1].key}
      ]_vars


(***************************************************************************)
(* Properties of get_db                                                    *)
(***************************************************************************)
\* C34: once an initialization attempt of get_db() has failed, every later
\* get_db() call, until reset_db_state() is called, raises the error that
\* reports the stored failure and makes no initialization attempt; and
\* callers racing on the first call make at most one initialization attempt
\* (at most one attempt is made between two resets).
C34_FailureMemoized ==
    [][/\ \A t \in DbCallers :
            gd_must_fail[t] =>
               /\ gd_pc'[t] # "init"
               /\ gd_pc'[t] = "idle" =>
                     (gd_must_fail'[t]
                        \/ gd_res'[t] = [kind |-> "previously_failed", error |-> InitError])
       /\ gd_attempts' <= 1
      ]_vars

\* callers raced on the first call: one made the only attempt, which
\* failed, another has been refused with the stored failure, and a call
\* begun after the failure was stored is about to test _db_init_failed
C34_Witness ==
    /\ gd_attempts = 1
    /\ _db_init_failed
    /\ \E t, u, v \in DbCallers :
          /\ gd_res[t] = [kind |-> "init_error", error |-> InitError]
          /\ gd_res[u] = [kind |-> "previously_failed", error |-> InitError]
          /\ gd_pc[u] = "idle"
          /\ gd_must_fail[v]
          /\ gd_pc[v] = "check_failed"


(***************************************************************************)
(* Properties of call_tool                                                 *)
(***************************************************************************)
\* the last call was purge_memory with a confirm string, made at or after
\* the expiry of the most recently issued token
ConfirmedAfterExpiry ==
    /\ tool_last.name = "purge_memory"
    /\ tool_last.kind # "token_issued"
    /\ tk_last.at = tool_last.at
    /\ tk_last.issue > 0
    /\ tk_last.at >= tk_issues[tk_last.issue].at + PURGE_TOKEN_TTL

\* C11: a purge token presented at or after its expiry (issue time +
\* PURGE_TOKEN_TTL) is not accepted, also when it is exactly the pending
\* token: validate_and_clear_purge_token returns (False, None, 0), the
\* response is "no pending request or expired", and purge_all() does not run.
C11_ExpiredTokenRejected ==
    ConfirmedAfterExpiry =>
        /\ tk_last.success = FALSE
        /\ tk_last.expected = None
        /\ tk_last.remaining = 0
        /\ tool_last.kind = "no_pending_or_expired"
        /\ ~tool_last.mutated

\* the pending token itself is presented at the very instant it expires,
\* with rows in the store that a purge would have deleted
C11_Witness ==
    /\ ConfirmedAfterExpiry
    /\ tk_last.provided = tk_issues[tk_last.issue].token
    /\ tk_last.at = tk_issues[tk_last.issue].at + PURGE_TOKEN_TTL
    /\ _pending_purge_token = tk_last.provided
    /\ decisions # <<>>

\* C12: the pending token is shown only in the response to the call that
\* issued it: a client knows no token other than those its own issue
\* responses gave it, whatever confirm strings it submits.
C12_TokenOnlyInIssueResponse ==
    \A c \in Clients : (known[c] \cap Tokens) \subseteq issued_to[c]

\* C20: a mutating tool (remember_decision, store_pattern, set_context,
\* import_memory, purge_memory) writes to the store only after
\* rate_limiter.check() admitted the call; with the limiter over budget no
\* mutating tool writes to the store.
C20_MutationsPassLimiter ==
    (tool_last.name \in MutatingTools /\ tool_last.mutated) =>
        (tool_last.limiter = "admitted" /\ ~tool_last.over)

\* C21: health_check, memory_stats and export_memory are never rejected by
\* the rate limiter and never consume budget: such a call appends no
\* timestamp to the rate window (the deque afterwards is the deque before
\* without some expired timestamps at its front, and remaining() is the
\* same), whatever the limiter's state.
C21_AdminToolsBypassLimiter ==
    [][(tool_n' = tool_n + 1 /\ tool_last'.name \in AdminTools) =>
          LET cut == clock - window_seconds IN
          /\ tool_last'.kind = "ok"
          /\ tool_last'.limiter = "exempt"
          /\ \E k \in 0..Len(_operations) :
                /\ \A i \in 1..k : _operations[i] < cut
                /\ DropsPrefix(_operations, _operations', k)
          /\ RateLimiterRemaining(_operations', cut, max_ops).val =
               RateLimiterRemaining(_operations, cut, max_ops).val
      ]_vars

\* an administrative tool has just answered while the limiter had no budget
\* left, and the admitted timestamps are all still recorded
C21_Witness ==
    /\ tool_last.name \in AdminTools
    /\ tool_last.kind = "ok"
    /\ tool_last.over
    /\ Len(_operations) = max_ops

\* a purge_memory call with a confirm string has just been answered
PurgeConfirmAnswered ==
    /\ tool_n' = tool_n + 1
    /\ tool_last'.name = "purge_memory"
    /\ tk_nvalidate' = tk_nvalidate + 1

\* the token guard accepts `provided` in the current state: a token is
\* pending, it has not expired, and it is the one provided
GuardAccepts(provided) ==
    /\ Truthy(_pending_purge_token)
    /\ clock < _purge_token_expires
    /\ provided = _pending_purge_token

\* C35: purge_all() runs only inside a purge_memory call whose
\* validate_and_clear_purge_token(confirm) succeeded: a call that comes to
\* purge_all() (it answers with the purge result, or with the error that
\* purge_all() raised) is such a call; a call with no pending, an expired
\* or a mismatched token deletes nothing and does not come to purge_all(),
\* so it takes no connection for the purge: it answers with the rejection.
C35_PurgeOnlyAfterGuard ==
    [][/\ (tool_n' = tool_n + 1 /\ tool_last'.kind \in {"purged", "internal_error"}) =>
            /\ PurgeConfirmAnswered
            /\ tk_last'.success
            /\ GuardAccepts(tk_last'.provided)
       /\ (PurgeConfirmAnswered /\ ~GuardAccepts(tk_last'.provided)) =>
            /\ UNCHANGED <<decisions, patterns, context>>
            /\ ~tk_last'.success
            /\ tool_last'.kind \in {"invalid_token", "no_pending_or_expired"}
            /\ ~tool_last'.mutated
      ]_vars

\* a purge has just run on a store that held rows, and the token is used up
C35_Witness ==
    /\ tool_last.name = "purge_memory"
    /\ tool_last.kind = "purged"
    /\ tk_last.success
    /\ next_id > 1
    /\ decisions = <<>>
    /\ _pending_purge_token = None

\* C39: a purge_memory call that consumes the pending token (its validation
\* succeeds) empties all three tables: the token is never used up by a call
\* that leaves data in place.
C39_ConsumedTokenPurges ==
    [][(PurgeConfirmAnswered /\ tk_last'.success) =>
          /\ decisions' = <<>>
          /\ patterns' = <<>>
          /\ context' = <<>>
      ]_vars


(***************************************************************************)
(* Properties of the wait queue                                            *)
(***************************************************************************)
\* C16: a caller that found no pooled connection and no temporary capacity
\* and reaches the wait queue with _waiting_count already at
\* MAX_WAIT_QUEUE_SIZE fails at once with the pool-exhausted error: it is
\* given no connection, and its steps, up to and including the return from
\* get_connection(), leave _waiting_count, _active_temp_connections and the
\* pool's contents as they were.
C16_QueueFullFailsImmediately ==
    [][\A t \in Callers :
         /\ (pc[t] = "enqueue" /\ pc'[t] # "enqueue"
               /\ _waiting_count >= MAX_WAIT_QUEUE_SIZE)
              => /\ pc'[t] = "raise"
                 /\ err'[t] = "queue_full"
                 /\ conn'[t] = 0
                 /\ ~in_wait'[t]
                 /\ UNCHANGED <<_waiting_count, _active_temp_connections, _pool>>
         /\ (pc[t] = "raise" /\ err[t] = "queue_full" /\ pc'[t] # "raise")
              => /\ pc'[t] = "idle"
                 /\ UNCHANGED <<_waiting_count, _active_temp_connections, _pool>>
    ]_vars

\* a caller has just been refused: the pool is empty, the temporary limit is
\* reached and the queue is full
C16_Witness ==
    \E t \in Callers :
        /\ pc[t] = "raise"
        /\ err[t] = "queue_full"
        /\ _pool = <<>>
        /\ _initialized
        /\ _active_temp_connections = MAX_TEMP_CONNECTIONS
        /\ _waiting_count = MAX_WAIT_QUEUE_SIZE

\* C17: _waiting_count stays between 0 and MAX_WAIT_QUEUE_SIZE in every
\* state, whatever the interleaving of callers that enter the wait queue,
\* get a connection, time out or are refused.
C17_WaitingCountInRange ==
    /\ 0 <= _waiting_count
    /\ _waiting_count <= MAX_WAIT_QUEUE_SIZE

\* the queue is full and a caller that timed out is about to leave it
C17_Witness ==
    /\ _waiting_count = MAX_WAIT_QUEUE_SIZE
    /\ \E t \in Callers : pc[t] = "leave_wait" /\ err[t] = "timeout"

\* callers inside the wait-queue block that are not using a connection
WaitingWithoutHandle == {t \in Callers : in_wait[t] /\ pc[t] # "hold"}

\* C18: a caller's wait ticket is removed when it obtains a connection:
\* _waiting_count is the number of callers that are in the wait queue and
\* are not using a connection, so a caller using a connection it got through
\* the queue takes up no queue slot.
C18_TicketRemovedOnSuccess ==
    _waiting_count = Cardinality(WaitingWithoutHandle)


\* a caller returns a pooled connection to the queue
PooledRelease == \E u \in Callers : pc[u] = "return_conn" /\ ~PoolFull

\* caller t is in the wait queue, without a connection
Queued(t) == in_wait[t] /\ pc[t] \in {"wait_get", "wait_temp_check"}

\* C27: no queued caller is starved as long as connections keep being
\* released: under fair scheduling, if pooled connections are returned again
\* and again, a caller that is in the wait queue when a connection is in the
\* pool eventually obtains a connection, even while other callers keep
\* arriving.
C27_QueuedCallerNotStarved ==
    ([]<>PooledRelease) =>
        \A t \in 1..NumCallers : (Queued(t) /\ _pool # <<>>) ~> (pc[t] = "hold")

\* C19: every get_connection() call eventually yields a connection or fails
\* with an error; no caller waits forever.
C19_AcquireTerminates ==
    \A t \in 1..NumCallers :
        (pc[t] \in AcquirePcs) ~> (pc[t] = "hold" \/ err[t] # "none")

\* caller t is inside initialize(), holding self._lock, in a put() on a full
\* queue, and nobody is left who could take a connection out of the queue:
\* every other caller has released what it held and is outside
\* get_connection() or waiting for self._lock
InitializeBlockedForever(t) ==
    /\ pc[t] = "init_put"
    /\ pool_lock = t
    /\ PoolFull
    /\ \A u \in Callers \ {t} : pc[u] \in {"idle", "initialize"} /\ conn[u] = 0

\* C36: after close_all(), a later get_connection() re-initializes the pool
\* and completes, also when connections that were checked out during
\* close_all() are released before or during the re-initialization:
\* initialize() never blocks forever while it holds the pool lock.
C36_ReinitializeCompletes ==
    \A t \in Callers : ever_closed => ~InitializeBlockedForever(t)

\* no caller is inside get_connection(): every acquire has been released or
\* has failed
Quiescent == \A t \in Callers : pc[t] = "idle"

\* C37: whenever the pool has been initialized, no caller is inside
\* get_connection() and close_all() has not been called, the pool holds
\* exactly pool_size available connections, no temporary connection is
\* counted as active and nobody is counted as waiting.
C37_NoLeakAtQuiescence ==
    (Quiescent /\ _initialized /\ ~ever_closed) =>
        /\ Len(_pool) = pool_size
        /\ _active_temp_connections = 0
        /\ _waiting_count = 0


(***************************************************************************)
(* The exhaustion scenario                                                 *)
(***************************************************************************)
\* what a caller's one call came to
GotPooled == {t \in Callers : /\ pc[t] \in {"hold", "return_conn", "exit"}
                              /\ conn[t] # 0
                              /\ ~is_temp_connection[t]}
GotTemp == {t \in Callers : pc[t] \in {"hold", "exit"} /\ is_temp_connection[t]}
TimedOut == {t \in Callers : err[t] = "timeout"}

\* C15: pool size 2, temporary limit 1, queue capacity 1, and callers that
\* hold their connection longer than the wait timeout.  Of four concurrent
\* callers, taken in the order they are served, two get pooled connections
\* at once (not through the queue), the third a temporary connection, and
\* the fourth enters the wait queue and fails with the timeout error without
\* ever being given a connection; no caller fails in any other way.
C15_FourthCallerTimesOut ==
    /\ \A t \in Callers : err[t] \in {"none", "timeout"}
    /\ \A t \in Callers : in_wait[t] => (conn[t] = 0 /\ ~is_temp_connection[t])
    /\ \A t \in TimedOut : conn[t] = 0 /\ ~is_temp_connection[t]
    /\ Cardinality(GotPooled) <= MaxPoolSize
    /\ Cardinality(GotTemp) <= MAX_TEMP_CONNECTIONS
    /\ AllSettled =>
         /\ Cardinality(GotPooled) = MaxPoolSize
         /\ Cardinality(GotTemp) = MAX_TEMP_CONNECTIONS
         /\ Cardinality(TimedOut) = MAX_WAIT_QUEUE_SIZE

\* three callers are inside their with-blocks, two with pooled connections
\* and one with a temporary one, and the fourth has just timed out in the queue
C15_Witness ==
    /\ ncallers = 4
    /\ pool_size = 2
    /\ AllSettled
    /\ Cardinality({t \in Callers : pc[t] = "hold" /\ ~is_temp_connection[t]}) = 2
    /\ Cardinality({t \in Callers : pc[t] = "hold" /\ is_temp_connection[t]}) = 1
    /\ \E t \in Callers : pc[t] = "raise" /\ err[t] = "timeout" /\ ~in_wait[t]

====
